---- MODULE Spec2Model ----
(***************************************************************************)
(* A model of the humboldt conduit package: URI parsing (Parse), the       *)
(* canonical-form test (URI.IsCanonical), canonicalization                 *)
(* (URI.Canonicalize), the three mechanism registries and the dispatch     *)
(* performed by URI.Dial / URI.Listen and the top-level Dial / Listen.     *)
(*                                                                         *)
(* Strings are sequences of one-character strings, so that the index and   *)
(* slice operations of the Go code are computed, not assumed.  Indexes     *)
(* follow Go: they start at 0 and -1 means "not found".                    *)
(*                                                                         *)
(* A Go function with local variables is written as a chain of operators,  *)
(* each taking the locals computed so far as parameters.                   *)
(***************************************************************************)
EXTENDS Integers, Sequences, FiniteSets, TLC

VARIABLES
    transMechs,   \* registry of transport mechanisms: name -> mechanism or Nil
    secMechs,     \* registry of security mechanisms:  name -> mechanism or Nil
    discMechs,    \* registry of discovery mechanisms: name -> mechanism or Nil
    op,           \* the operation whose call is in flight ("none" when idle)
    arg,          \* its input: a raw URI string or a URI value
    ret,          \* what it returned
    events,       \* what it consulted, in order: lookups and mechanism calls
    listeners,    \* the TCP listeners opened so far, in order of opening
    conns,        \* the TCP connections established so far, in order
    conduits,     \* the conduits returned so far, in order
    server,       \* the echo server of the functional test
    clients,      \* its clients, in the order they were made
    main,         \* the position of the test itself
    wire          \* the bytes under way on each connection

\* The state of the functional test; the other specifications leave it alone.
scenario == <<server, clients, main, wire>>

vars == <<transMechs, secMechs, discMechs, op, arg, ret, events,
          listeners, conns, conduits, scenario>>

\* No functional test is running.
NoScenario ==
    /\ server = [accept |-> "none"]
    /\ clients = <<>>
    /\ main = [pc |-> "none"]
    /\ wire = <<>>

----------------------------------------------------------------------------
(* Bounds of the model.                                                    *)

\* Longest scheme text the parser specification enumerates.
MaxSchemeLen == 9

\* Most addresses a forward DNS lookup returns.
MaxIPs == 2

----------------------------------------------------------------------------
(* Strings as sequences of characters, with Go's index conventions.        *)

Nil == "nil"

Letters == {"a", "b", "c", "d", "e", "f", "g", "h", "i", "j", "k", "l", "m",
            "n", "o", "p", "q", "r", "s", "t", "u", "v", "w", "x", "y", "z"}
Digits  == {"0", "1", "2", "3", "4", "5", "6", "7", "8", "9"}

DigitVal(c) ==
    CASE c = "0" -> 0 [] c = "1" -> 1 [] c = "2" -> 2 [] c = "3" -> 3
      [] c = "4" -> 4 [] c = "5" -> 5 [] c = "6" -> 6 [] c = "7" -> 7
      [] c = "8" -> 8 [] c = "9" -> 9

\* s[lo:hi] and s[lo:] of Go (0-based, hi exclusive).
Slice(s, lo, hi) == SubSeq(s, lo + 1, hi)
SliceFrom(s, lo) == SubSeq(s, lo + 1, Len(s))

\* strings.IndexAny(s, c) for a one-character set: first index of c, or -1.
IndexAny(s, c) ==
    IF \E i \in 1..Len(s) : s[i] = c
    THEN (CHOOSE i \in 1..Len(s) : s[i] = c /\ \A j \in 1..(i - 1) : s[j] # c) - 1
    ELSE -1

\* strings.LastIndexAny(s, c) for a one-character set: last index of c, or -1.
LastIndexAny(s, c) ==
    IF \E i \in 1..Len(s) : s[i] = c
    THEN (CHOOSE i \in 1..Len(s) : s[i] = c /\ \A j \in (i + 1)..Len(s) : s[j] # c) - 1
    ELSE -1

HasPrefix(s, p) == Len(s) >= Len(p) /\ SubSeq(s, 1, Len(p)) = p

HasSuffix(s, p) == Len(s) >= Len(p) /\ SubSeq(s, Len(s) - Len(p) + 1, Len(s)) = p

Contains(s, c) == \E i \in 1..Len(s) : s[i] = c

\* The text before the first c of s; all of s when it holds no c.
Before(s, c) == IF Contains(s, c) THEN Slice(s, 0, IndexAny(s, c)) ELSE s

----------------------------------------------------------------------------
(* url.Parse, as far as Parse depends on it: the scheme scanner, the       *)
(* authority of a "//" URL and the check of the port that follows a host.  *)

\* getScheme: the scheme is a letter followed by letters, digits, '+', '-'
\* and '.', ended by ':'.  A ':' in first position is an error; any other
\* first character that is no letter, or any foreign character, means that
\* the text has no scheme at all.
RECURSIVE getSchemeFrom(_, _)
getSchemeFrom(raw, i) ==
    IF i >= Len(raw) THEN [scheme |-> <<>>, rest |-> raw, err |-> Nil]
    ELSE IF raw[i + 1] \in Letters THEN getSchemeFrom(raw, i + 1)
    ELSE IF raw[i + 1] \in Digits \cup {"+", "-", "."}
         THEN IF i = 0 THEN [scheme |-> <<>>, rest |-> raw, err |-> Nil]
              ELSE getSchemeFrom(raw, i + 1)
    ELSE IF raw[i + 1] = ":"
         THEN IF i = 0
              THEN [scheme |-> <<>>, rest |-> <<>>, err |-> "ParseError"]
              ELSE [scheme |-> Slice(raw, 0, i),
                    rest |-> SliceFrom(raw, i + 1), err |-> Nil]
    ELSE [scheme |-> <<>>, rest |-> raw, err |-> Nil]

getScheme(raw) == getSchemeFrom(raw, 0)

\* validOptionalPort: empty, or ':' followed by digits only.
validOptionalPort(port) ==
    \/ port = <<>>
    \/ /\ port[1] = ":"
       /\ \A i \in 2..Len(port) : port[i] \in Digits

\* parseHost: a bracketed host must close its bracket and may be followed
\* only by a valid port; otherwise what follows the last ':' must be one.
hostOK(host) ==
    IF HasPrefix(host, <<"[">>)
    THEN /\ Contains(host, "]")
         /\ validOptionalPort(SliceFrom(host, LastIndexAny(host, "]") + 1))
    ELSE Contains(host, ":")
            => validOptionalPort(SliceFrom(host, LastIndexAny(host, ":")))

\* url.Parse restricted to texts without user information, query or
\* fragment: [err, Scheme, Host, Path].
URL(scheme, host, path) ==
    [err |-> Nil, Scheme |-> scheme, Host |-> host, Path |-> path]

BadURL == [err |-> "ParseError", Scheme |-> <<>>, Host |-> <<>>, Path |-> <<>>]

\* rest does not begin with '/': an opaque URL when there is a scheme;
\* without one, a first path segment that holds a ':' is refused.
urlParseNoSlash(scheme, rest) ==
    IF scheme # <<>> THEN URL(scheme, <<>>, <<>>)
    ELSE IF Contains(Before(rest, "/"), ":") THEN BadURL
    ELSE URL(<<>>, <<>>, rest)

\* The authority is what follows "//" up to the next '/'; the path is the
\* rest.
urlParseHost(scheme, authority, path) ==
    IF hostOK(authority) THEN URL(scheme, authority, path) ELSE BadURL

urlParseAuthority(scheme, after) ==
    urlParseHost(scheme, Before(after, "/"),
                 SliceFrom(after, Len(Before(after, "/"))))

urlParseRest(scheme, rest) ==
    IF ~HasPrefix(rest, <<"/">>) THEN urlParseNoSlash(scheme, rest)
    ELSE IF HasPrefix(rest, <<"/", "/">>)
            /\ (scheme # <<>> \/ ~HasPrefix(rest, <<"/", "/", "/">>))
    THEN urlParseAuthority(scheme, SliceFrom(rest, 2))
    ELSE URL(scheme, <<>>, rest)

urlParseScheme(g) ==
    IF g.err # Nil THEN BadURL ELSE urlParseRest(g.scheme, g.rest)

urlParse(raw) == urlParseScheme(getScheme(raw))

----------------------------------------------------------------------------
(* The conduit URI and Parse.                                              *)

\* type URI struct: the fields of the embedded url.URL and the three
\* identifiers taken from the scheme.  The constructor leaves the url.URL
\* fields it is not given at their zero values.
URI(scheme, host, path, transport, security, discovery) ==
    [Scheme |-> scheme, Host |-> host, Path |-> path,
     Opaque |-> <<>>, User |-> Nil, RawPath |-> <<>>, ForceQuery |-> FALSE,
     RawQuery |-> <<>>, Fragment |-> <<>>, RawFragment |-> <<>>,
     Transport |-> transport, Security |-> security, Discovery |-> discovery]

NoURI == URI(<<>>, <<>>, <<>>, <<>>, <<>>, <<>>)

\* The second step of the disassembly: the security identifier follows the
\* first '+' of what is left of the scheme; the transport precedes it.
SplitSecurity(scheme, secIdx, disc) ==
    [Transport |-> IF secIdx >= 0 THEN Slice(scheme, 0, secIdx) ELSE scheme,
     Security  |-> IF secIdx >= 0 THEN SliceFrom(scheme, secIdx + 1) ELSE <<>>,
     Discovery |-> disc]

\* The first step: the discovery identifier follows the last '.', and is
\* cut off the scheme before the '+' is looked for.
SplitDiscovery(scheme, discIdx) ==
    IF discIdx >= 0
    THEN SplitSecurity(Slice(scheme, 0, discIdx),
                       IndexAny(Slice(scheme, 0, discIdx), "+"),
                       SliceFrom(scheme, discIdx + 1))
    ELSE SplitSecurity(scheme, IndexAny(scheme, "+"), <<>>)

\* Variants of the disassembly, each with one slip in it.
SplitScheme_FirstDot(scheme) == SplitDiscovery(scheme, IndexAny(scheme, "."))

SplitScheme_KeepDot(scheme) ==
    LET discIdx == LastIndexAny(scheme, ".")
        disc    == IF discIdx >= 0 THEN SliceFrom(scheme, discIdx) ELSE <<>>
        s1      == IF discIdx >= 0 THEN Slice(scheme, 0, discIdx) ELSE scheme
    IN SplitSecurity(s1, IndexAny(s1, "+"), disc)

SplitScheme_PlusFirst(scheme) ==
    LET secIdx  == IndexAny(scheme, "+")
        discIdx == LastIndexAny(scheme, ".")
        disc    == IF discIdx >= 0 THEN SliceFrom(scheme, discIdx + 1) ELSE <<>>
        sec     == IF secIdx >= 0
                   THEN IF discIdx > secIdx THEN Slice(scheme, secIdx + 1, discIdx)
                        ELSE IF discIdx >= 0 THEN <<>>
                        ELSE SliceFrom(scheme, secIdx + 1)
                   ELSE <<>>
        s2      == IF secIdx >= 0 THEN Slice(scheme, 0, secIdx)
                   ELSE IF discIdx >= 0 THEN Slice(scheme, 0, discIdx) ELSE scheme
    IN [Transport |-> s2, Security |-> sec, Discovery |-> disc]

\* The disassembly of the scheme into its component parts.
SplitScheme(scheme) == SplitDiscovery(scheme, LastIndexAny(scheme, "."))

ParseParts(tmpURL, parts) ==
    [uri |-> URI(tmpURL.Scheme, tmpURL.Host, tmpURL.Path,
                 parts.Transport, parts.Security, parts.Discovery),
     err |-> Nil]

ParseURL(tmpURL) ==
    IF tmpURL.err # Nil THEN [uri |-> NoURI, err |-> tmpURL.err]
    ELSE ParseParts(tmpURL, SplitScheme(tmpURL.Scheme))

\* Parse(rawuri): [uri, err]; uri is meaningful only when err = Nil.
Parse(rawuri) == ParseURL(urlParse(rawuri))

----------------------------------------------------------------------------
(* The net and strconv functions IsCanonical and Canonicalize call.        *)

\* strings.Split(s, c): the fields of s between occurrences of c.
RECURSIVE Split(_, _)
Split(s, c) ==
    IF ~Contains(s, c) THEN <<s>>
    ELSE <<Before(s, c)>> \o Split(SliceFrom(s, Len(Before(s, c)) + 1), c)

\* The value of a text of decimal digits.
RECURSIVE DecVal(_)
DecVal(s) ==
    IF s = <<>> THEN 0
    ELSE 10 * DecVal(SubSeq(s, 1, Len(s) - 1)) + DigitVal(s[Len(s)])

\* strconv.ParseUint(s, 10, 16): [ok, val].  The text must be one or more
\* decimal digits and its value must fit 16 bits.
ParseUint16(s) ==
    IF s = <<>> \/ \E i \in 1..Len(s) : s[i] \notin Digits
    THEN [ok |-> FALSE, val |-> 0]
    ELSE IF DecVal(s) > 65535 THEN [ok |-> FALSE, val |-> 0]
    ELSE [ok |-> TRUE, val |-> DecVal(s)]

\* strconv.FormatUint(n, 10)
DigitChar(d) ==
    CASE d = 0 -> "0" [] d = 1 -> "1" [] d = 2 -> "2" [] d = 3 -> "3"
      [] d = 4 -> "4" [] d = 5 -> "5" [] d = 6 -> "6" [] d = 7 -> "7"
      [] d = 8 -> "8" [] d = 9 -> "9" [] d = 10 -> "a" [] d = 11 -> "b"
      [] d = 12 -> "c" [] d = 13 -> "d" [] d = 14 -> "e" [] d = 15 -> "f"

RECURSIVE FormatBase(_, _)
FormatBase(n, base) ==
    IF n < base THEN <<DigitChar(n)>>
    ELSE FormatBase(n \div base, base) \o <<DigitChar(n % base)>>

FormatUint(n) == FormatBase(n, 10)

\* net.SplitHostPort: [ok, host, port].  The port follows the last ':'; a
\* host that holds a ':' must be bracketed.
HostPort(host, port) == [ok |-> TRUE, host |-> host, port |-> port]

BadHostPort == [ok |-> FALSE, host |-> <<>>, port |-> <<>>]

\* hostport begins with '[': i is the index of the last ':', end the index
\* of the first ']'.
SplitBracketed(hostport, i, end) ==
    IF end < 0 THEN BadHostPort
    ELSE IF end + 1 # i THEN BadHostPort
    ELSE IF Contains(SliceFrom(hostport, 1), "[") THEN BadHostPort
    ELSE IF Contains(SliceFrom(hostport, end + 1), "]") THEN BadHostPort
    ELSE HostPort(Slice(hostport, 1, end), SliceFrom(hostport, i + 1))

SplitPlain(hostport, i) ==
    IF Contains(Slice(hostport, 0, i), ":") THEN BadHostPort
    ELSE IF Contains(hostport, "[") THEN BadHostPort
    ELSE IF Contains(hostport, "]") THEN BadHostPort
    ELSE HostPort(Slice(hostport, 0, i), SliceFrom(hostport, i + 1))

SplitAtColon(hostport, i) ==
    IF i < 0 THEN BadHostPort
    ELSE IF hostport[1] = "[" THEN SplitBracketed(hostport, i, IndexAny(hostport, "]"))
    ELSE SplitPlain(hostport, i)

SplitHostPort(hostport) == SplitAtColon(hostport, LastIndexAny(hostport, ":"))

\* An IP address is its eight 16-bit groups (NoIP: no address, Go's nil);
\* an IPv4 address a.b.c.d is the IPv4-mapped address ::ffff:a.b.c.d, as
\* net.IP keeps it.
NoIP == <<>>

IPv4(a, b, c, d) == <<0, 0, 0, 0, 0, 65535, a * 256 + b, c * 256 + d>>

IsIPv4(ip) == \A i \in 1..5 : ip[i] = 0 /\ ip[6] = 65535

\* The dotted-decimal parser: four fields of one to three digits, none
\* above 255, none with a leading zero.
okField4(x) ==
    /\ Len(x) \in 1..3
    /\ \A i \in 1..Len(x) : x[i] \in Digits
    /\ (Len(x) > 1 => x[1] # "0")
    /\ DecVal(x) <= 255

parseIPv4Fields(f) ==
    IF Len(f) = 4 /\ \A k \in 1..4 : okField4(f[k])
    THEN IPv4(DecVal(f[1]), DecVal(f[2]), DecVal(f[3]), DecVal(f[4]))
    ELSE NoIP

parseIPv4(s) == parseIPv4Fields(Split(s, "."))

HexDigits == Digits \cup {"a", "b", "c", "d", "e", "f"}

HexDigitVal(c) ==
    CASE c \in Digits -> DigitVal(c)
      [] c = "a" -> 10 [] c = "b" -> 11 [] c = "c" -> 12
      [] c = "d" -> 13 [] c = "e" -> 14 [] c = "f" -> 15

RECURSIVE HexVal(_)
HexVal(s) ==
    IF s = <<>> THEN 0
    ELSE 16 * HexVal(SubSeq(s, 1, Len(s) - 1)) + HexDigitVal(s[Len(s)])

\* The IPv6 parser, for texts of hexadecimal groups with at most one "::"
\* (no embedded dotted quad, no zone).  f holds the fields between colons,
\* without the empty field a leading or trailing "::" adds; gaps holds the
\* positions of the empty fields that are left: the place of the "::".
okField6(x) == Len(x) \in 1..4 /\ \A i \in 1..Len(x) : x[i] \in HexDigits

\* The eight groups: gap is the position of the "::", fill the number of
\* zero groups it stands for.
ExpandGroups(f, gap, fill) ==
    [k \in 1..8 |->
        IF k < gap THEN HexVal(f[k])
        ELSE IF k < gap + fill THEN 0
        ELSE HexVal(f[k - fill + 1])]

parseIPv6Groups(f, gaps, lead, trail) ==
    IF /\ Cardinality(gaps) <= 1
       /\ \A k \in 1..Len(f) : k \notin gaps => okField6(f[k])
       /\ (1 \in gaps => lead)
       /\ (Len(f) \in gaps => trail)
       /\ (lead \/ trail => gaps # {})
       /\ IF gaps = {} THEN Len(f) = 8 ELSE Len(f) - 1 <= 7
    THEN IF gaps = {} THEN [k \in 1..8 |-> HexVal(f[k])]
         ELSE ExpandGroups(f, CHOOSE k \in gaps : TRUE, 8 - (Len(f) - 1))
    ELSE NoIP

parseIPv6Fields(f, lead, trail) ==
    parseIPv6Groups(f, {k \in 1..Len(f) : f[k] = <<>>}, lead, trail)

parseIPv6Trail(f1, lead, trail) ==
    parseIPv6Fields(IF trail THEN SubSeq(f1, 1, Len(f1) - 1) ELSE f1, lead, trail)

parseIPv6Lead(raw, lead, trail) ==
    parseIPv6Trail(IF lead THEN Tail(raw) ELSE raw, lead, trail)

parseIPv6(s) ==
    parseIPv6Lead(Split(s, ":"), HasPrefix(s, <<":", ":">>),
                  HasSuffix(s, <<":", ":">>))

\* net.ParseIP: the first '.' or ':' of the text decides the parser.
ParseIPAt(s, dot, colon) ==
    IF dot >= 0 /\ (colon < 0 \/ dot < colon) THEN parseIPv4(s)
    ELSE IF colon >= 0 THEN parseIPv6(s)
    ELSE NoIP

ParseIP(s) == ParseIPAt(s, IndexAny(s, "."), IndexAny(s, ":"))

\* The longest run of zero groups of an IPv6 address, leftmost first, when
\* it is longer than one group: [start, len], len = 0 without one.
ZeroRuns(ip) ==
    {r \in (1..8) \X (2..8) :
        /\ r[1] + r[2] - 1 <= 8
        /\ \A k \in r[1]..(r[1] + r[2] - 1) : ip[k] = 0}

Run(r) == [start |-> r[1], len |-> r[2]]

LongestRun(runs) ==
    IF runs = {} THEN [start |-> 0, len |-> 0]
    ELSE Run(CHOOSE r \in runs :
                \A q \in runs : q[2] < r[2] \/ (q[2] = r[2] /\ q[1] >= r[1]))

ZeroRun(ip) == LongestRun(ZeroRuns(ip))

RECURSIVE JoinGroups(_, _, _)
JoinGroups(ip, from, to) ==
    IF from > to THEN <<>>
    ELSE FormatBase(ip[from], 16)
         \o (IF from < to THEN <<":">> ELSE <<>>)
         \o JoinGroups(ip, from + 1, to)

\* IP.String(): dotted decimal for an IPv4 address, else the hexadecimal
\* groups with the longest run of zeros written "::".
IPv6String(ip, z) ==
    IF z.len = 0 THEN JoinGroups(ip, 1, 8)
    ELSE JoinGroups(ip, 1, z.start - 1) \o <<":", ":">>
         \o JoinGroups(ip, z.start + z.len, 8)

IPString(ip) ==
    IF IsIPv4(ip)
    THEN FormatUint(ip[7] \div 256) \o <<".">> \o FormatUint(ip[7] % 256) \o <<".">>
         \o FormatUint(ip[8] \div 256) \o <<".">> \o FormatUint(ip[8] % 256)
    ELSE IPv6String(ip, ZeroRun(ip))

\* net.JoinHostPort: a host that holds a ':' is bracketed.
JoinHostPort(host, port) ==
    IF Contains(host, ":")
    THEN <<"[">> \o host \o <<"]", ":">> \o port
    ELSE host \o <<":">> \o port

----------------------------------------------------------------------------
(* The registries.  A registry is a Go map: a function whose domain is the *)
(* set of names registered so far.                                         *)

\* reg[name] of a Go map: the zero value (nil) for a missing key.
MapGet(reg, name) == IF name \in DOMAIN reg THEN reg[name] ELSE Nil

\* reg[name] = mech of a Go map: insert or replace.
MapSet(reg, name, mech) ==
    [n \in DOMAIN reg \cup {name} |-> IF n = name THEN mech ELSE reg[n]]

LookupDiscovery(name) == MapGet(discMechs, name)
LookupSecurity(name) == MapGet(secMechs, name)
LookupTransport(name) == MapGet(transMechs, name)

----------------------------------------------------------------------------
(* Names, mechanisms and the state before any call.                        *)

TCP == <<"t", "c", "p">>
UDP == <<"u", "d", "p">>
TLS == <<"t", "l", "s">>
SRV == <<"s", "r", "v">>

TransportNames == {TCP, UDP}
SecurityNames == {TLS}
DiscoveryNames == {SRV}

\* TCPMech is the transport of this package; M1, S1 and D1 stand for
\* mechanisms registered by other packages.
TransportMechs == {"TCPMech", "M1"}
SecurityMechs == {"S1"}
DiscoveryMechs == {"D1"}

NoRet == [err |-> Nil]
NoArg == [none |-> TRUE]

NoRegistry == [n \in {} |-> Nil]

\* The maps start empty; the package's init() registers the TCP transport.
InitRegistries ==
    /\ transMechs = MapSet(NoRegistry, TCP, "TCPMech")
    /\ secMechs = NoRegistry
    /\ discMechs = NoRegistry

----------------------------------------------------------------------------
(* URI.IsCanonical                                                         *)

\* A variant that leaves the port unchecked.
IsCanonical_AnyPort(u) ==
    IF u.Discovery # <<>> THEN FALSE
    ELSE IF u.Host = <<>> THEN TRUE
    ELSE IF ~SplitHostPort(u.Host).ok THEN FALSE
    ELSE IF ParseIP(SplitHostPort(u.Host).host) = NoIP THEN FALSE
    ELSE TRUE

\* hp is what net.SplitHostPort made of the host.
IsCanonicalHostPort(hp) ==
    IF ~hp.ok THEN FALSE
    ELSE IF ~ParseUint16(hp.port).ok THEN FALSE
    ELSE IF ParseIP(hp.host) = NoIP THEN FALSE
    ELSE TRUE

IsCanonical(u) ==
    IF u.Discovery # <<>> THEN FALSE
    ELSE IF u.Host = <<>> THEN TRUE
    ELSE IsCanonicalHostPort(SplitHostPort(u.Host))

----------------------------------------------------------------------------
(* URI.Canonicalize.  The resolver answers (what the discovery mechanism,  *)
(* the DNS lookup and the service lookup return when they are called) are  *)
(* parameters; a result element is a pointer: the receiver itself or a     *)
(* newly built URI.                                                        *)

Self(u) == [self |-> TRUE, uri |-> u]
New(u) == [self |-> FALSE, uri |-> u]

EvDiscMechs(name) == [kind |-> "discMechs", name |-> name]
EvDiscover(mech, u, out) ==
    [kind |-> "Discover", mech |-> mech, uri |-> u, out |-> out]
EvLookupIP(host, out) == [kind |-> "lookupIP", host |-> host, out |-> out]
EvLookupPort(network, service, out) ==
    [kind |-> "lookupPort", network |-> network, service |-> service, out |-> out]

\* The URI built for one address: the fields the composite literal names
\* are copied from the receiver, the others are zero.
Resolved(u, host) ==
    [URI(u.Scheme, host, u.Path, u.Transport, u.Security, u.Discovery)
        EXCEPT !.Opaque = u.Opaque, !.User = u.User, !.RawPath = u.RawPath,
               !.ForceQuery = u.ForceQuery, !.RawQuery = u.RawQuery,
               !.Fragment = u.Fragment]

\* A variant that assembles the URIs last address first.
AssembleURIs_Reversed(u, ips, port) ==
    [k \in 1..Len(ips) |->
        New(Resolved(u, JoinHostPort(IPString(ips[Len(ips) + 1 - k]), port)))]

\* The URIs assembled from the resolved addresses, one per address, in order.
AssembleURIs(u, ips, port) ==
    [k \in 1..Len(ips) |->
        New(Resolved(u, JoinHostPort(IPString(ips[k]), port)))]

Canonicalized(uris, evs) == [uris |-> uris, err |-> Nil, events |-> evs]

NotCanonicalized(err, evs) == [uris |-> <<>>, err |-> err, events |-> evs]

\* A variant that keeps the name of the service as the port.
CanonicalizePort_KeepService(u, hp, ips, evs, svc) ==
    IF ParseUint16(hp.port).ok
    THEN Canonicalized(AssembleURIs(u, ips, hp.port), evs)
    ELSE IF svc.err # Nil
    THEN NotCanonicalized(svc.err, evs \o <<EvLookupPort(u.Transport, hp.port, svc)>>)
    ELSE Canonicalized(AssembleURIs(u, ips, hp.port),
                       evs \o <<EvLookupPort(u.Transport, hp.port, svc)>>)

\* The port: taken as it is when numeric, else looked up as a service of
\* the transport.  ips and evs are the addresses and the lookups so far.
CanonicalizePort(u, hp, ips, evs, svc) ==
    IF ParseUint16(hp.port).ok
    THEN Canonicalized(AssembleURIs(u, ips, hp.port), evs)
    ELSE IF svc.err # Nil
    THEN NotCanonicalized(svc.err, evs \o <<EvLookupPort(u.Transport, hp.port, svc)>>)
    ELSE Canonicalized(AssembleURIs(u, ips, FormatUint(svc.port)),
                       evs \o <<EvLookupPort(u.Transport, hp.port, svc)>>)

\* A variant that asks for the service before it asks DNS.
CanonicalizeHost_PortFirst(u, hp, literal, dns, svc) ==
    IF literal # NoIP THEN CanonicalizePort(u, hp, <<literal>>, <<>>, svc)
    ELSE IF ~ParseUint16(hp.port).ok /\ svc.err # Nil
    THEN NotCanonicalized(svc.err, <<EvLookupPort(u.Transport, hp.port, svc)>>)
    ELSE IF dns.err # Nil
    THEN NotCanonicalized(dns.err, <<EvLookupIP(hp.host, dns)>>)
    ELSE CanonicalizePort(u, hp, dns.ips, <<EvLookupIP(hp.host, dns)>>, svc)

\* The host: a literal address stands for itself, else DNS is asked.
CanonicalizeHost(u, hp, literal, dns, svc) ==
    IF literal # NoIP THEN CanonicalizePort(u, hp, <<literal>>, <<>>, svc)
    ELSE IF dns.err # Nil
    THEN NotCanonicalized(dns.err, <<EvLookupIP(hp.host, dns)>>)
    ELSE CanonicalizePort(u, hp, dns.ips, <<EvLookupIP(hp.host, dns)>>, svc)

CanonicalizeHostPort(u, hp, dns, svc) ==
    IF ~hp.ok THEN NotCanonicalized("AddrError", <<>>)
    ELSE CanonicalizeHost(u, hp, ParseIP(hp.host), dns, svc)

\* A variant that hands on no URI when the mechanism reports an error.
CanonicalizeDiscovery_DropOnError(u, disc) ==
    IF u.Discovery \notin DOMAIN discMechs
    THEN NotCanonicalized("ErrUnknownDiscovery", <<EvDiscMechs(u.Discovery)>>)
    ELSE IF discMechs[u.Discovery] = Nil
    THEN NotCanonicalized("NilDereference", <<EvDiscMechs(u.Discovery)>>)
    ELSE [uris |-> IF disc.err # Nil THEN <<>> ELSE disc.uris, err |-> disc.err,
          events |-> <<EvDiscMechs(u.Discovery),
                       EvDiscover(discMechs[u.Discovery], u, disc)>>]

\* The discovery: the map is indexed with the two-value form, so a name
\* that is no key is refused; a key whose value is nil is not told apart
\* from a mechanism, and the call through the nil interface panics.
CanonicalizeDiscovery(u, disc) ==
    IF u.Discovery \notin DOMAIN discMechs
    THEN NotCanonicalized("ErrUnknownDiscovery", <<EvDiscMechs(u.Discovery)>>)
    ELSE IF discMechs[u.Discovery] = Nil
    THEN NotCanonicalized("NilDereference", <<EvDiscMechs(u.Discovery)>>)
    ELSE [uris |-> disc.uris, err |-> disc.err,
          events |-> <<EvDiscMechs(u.Discovery),
                       EvDiscover(discMechs[u.Discovery], u, disc)>>]

CanonicalizeAddress(u, dns, svc) ==
    IF u.Host = <<>> THEN Canonicalized(<<Self(u)>>, <<>>)
    ELSE CanonicalizeHostPort(u, SplitHostPort(u.Host), dns, svc)

\* A variant that answers with a copy of the receiver.
Canonicalize_CopySelf(u, disc, dns, svc) ==
    IF u.Discovery # <<>> THEN CanonicalizeDiscovery(u, disc)
    ELSE IF u.Host = <<>> THEN Canonicalized(<<New(u)>>, <<>>)
    ELSE CanonicalizeHostPort(u, SplitHostPort(u.Host), dns, svc)

\* A variant that resolves the address when the discovery is unknown.
Canonicalize_IgnoreUnknown(u, disc, dns, svc) ==
    IF u.Discovery # <<>> /\ u.Discovery \in DOMAIN discMechs
    THEN CanonicalizeDiscovery(u, disc)
    ELSE CanonicalizeAddress(u, dns, svc)

Canonicalize(u, disc, dns, svc) ==
    IF u.Discovery # <<>> THEN CanonicalizeDiscovery(u, disc)
    ELSE CanonicalizeAddress(u, dns, svc)

----------------------------------------------------------------------------
(* URI.Dial and URI.Listen, and the top-level Dial and Listen.  "out" is   *)
(* what the chosen mechanism returns if it is called.                      *)

EvLookupSecurity(name) == [kind |-> "lookupSecurity", name |-> name]
EvLookupTransport(name) == [kind |-> "lookupTransport", name |-> name]
EvMech(method, mech, config, u, out) ==
    [kind |-> method, mech |-> mech, config |-> config, uri |-> u, out |-> out]

Failed(err, evs) == [val |-> Nil, err |-> err, events |-> evs]

\* mech is what the lookup recorded in evs gave: a mechanism is called and
\* answers for the operation, nil is the error "unknown".
Forward(method, mech, evs, unknown, u, config, out) ==
    IF mech # Nil
    THEN [val |-> out.val, err |-> out.err,
          events |-> evs \o <<EvMech(method, mech, config, u, out)>>]
    ELSE Failed(unknown, evs)

\* Variants of the dispatch, each with one slip in it: the security lookup
\* made before the checks; the transport check made before the canonical
\* check; the transport looked up beneath the security mechanism; the
\* transport tried when the security mechanism is unknown.
Dispatch_LookupFirst(method, u, config, out) ==
    IF ~IsCanonical(u)
    THEN Failed("ErrNotCanonical", <<EvLookupSecurity(u.Security)>>)
    ELSE IF u.Transport = <<>>
    THEN Failed("ErrUnknownTransport", <<EvLookupSecurity(u.Security)>>)
    ELSE IF u.Security # <<>>
    THEN Forward(method, LookupSecurity(u.Security),
                 <<EvLookupSecurity(u.Security)>>, "ErrUnknownSecurity",
                 u, config, out)
    ELSE Forward(method, LookupTransport(u.Transport),
                 <<EvLookupTransport(u.Transport)>>, "ErrUnknownTransport",
                 u, config, out)

Dispatch_TransportFirst(method, u, config, out) ==
    IF u.Transport = <<>> THEN Failed("ErrUnknownTransport", <<>>)
    ELSE IF ~IsCanonical(u) THEN Failed("ErrNotCanonical", <<>>)
    ELSE IF u.Security # <<>>
    THEN Forward(method, LookupSecurity(u.Security),
                 <<EvLookupSecurity(u.Security)>>, "ErrUnknownSecurity",
                 u, config, out)
    ELSE Forward(method, LookupTransport(u.Transport),
                 <<EvLookupTransport(u.Transport)>>, "ErrUnknownTransport",
                 u, config, out)

Dispatch_Layered(method, u, config, out) ==
    IF ~IsCanonical(u) THEN Failed("ErrNotCanonical", <<>>)
    ELSE IF u.Transport = <<>> THEN Failed("ErrUnknownTransport", <<>>)
    ELSE IF u.Security # <<>>
    THEN Forward(method, LookupSecurity(u.Security),
                 <<EvLookupTransport(u.Transport), EvLookupSecurity(u.Security)>>,
                 "ErrUnknownSecurity", u, config, out)
    ELSE Forward(method, LookupTransport(u.Transport),
                 <<EvLookupTransport(u.Transport)>>, "ErrUnknownTransport",
                 u, config, out)

Dispatch_Fallback(method, u, config, out) ==
    IF ~IsCanonical(u) THEN Failed("ErrNotCanonical", <<>>)
    ELSE IF u.Transport = <<>> THEN Failed("ErrUnknownTransport", <<>>)
    ELSE IF u.Security # <<>> /\ LookupSecurity(u.Security) # Nil
    THEN Forward(method, LookupSecurity(u.Security),
                 <<EvLookupSecurity(u.Security)>>, "ErrUnknownSecurity",
                 u, config, out)
    ELSE Forward(method, LookupTransport(u.Transport),
                 IF u.Security # <<>>
                 THEN <<EvLookupSecurity(u.Security), EvLookupTransport(u.Transport)>>
                 ELSE <<EvLookupTransport(u.Transport)>>,
                 "ErrUnknownTransport", u, config, out)

\* The body shared, line for line, by URI.Dial and URI.Listen.
Dispatch(method, u, config, out) ==
    IF ~IsCanonical(u) THEN Failed("ErrNotCanonical", <<>>)
    ELSE IF u.Transport = <<>> THEN Failed("ErrUnknownTransport", <<>>)
    ELSE IF u.Security # <<>>
    THEN Forward(method, LookupSecurity(u.Security),
                 <<EvLookupSecurity(u.Security)>>, "ErrUnknownSecurity",
                 u, config, out)
    ELSE Forward(method, LookupTransport(u.Transport),
                 <<EvLookupTransport(u.Transport)>>, "ErrUnknownTransport",
                 u, config, out)

URIDial(u, config, out) == Dispatch("mech.Dial", u, config, out)

URIListen(u, config, out) == Dispatch("mech.Listen", u, config, out)

\* Dial(config, uri) and Listen(config, uri): parse, then dispatch.
DialParsed(config, p, out) ==
    IF p.err # Nil THEN Failed(p.err, <<>>)
    ELSE URIDial(p.uri, config, out)

Dial(config, rawuri, out) == DialParsed(config, Parse(rawuri), out)

ListenParsed(config, p, out) ==
    IF p.err # Nil THEN Failed(p.err, <<>>)
    ELSE URIListen(p.uri, config, out)

\* A variant that dials where it should listen.
Listen_Dials(config, rawuri, out) == DialParsed(config, Parse(rawuri), out)

Listen(config, rawuri, out) == ListenParsed(config, Parse(rawuri), out)

----------------------------------------------------------------------------
(* The package specification: a caller registers mechanisms and calls the  *)
(* operations one at a time; each call is one step, then the caller takes  *)
(* the result and is free to call again.                                   *)

IP4Text == <<"1", ".", "2", ".", "3", ".", "4">>

Hosts ==
    { <<>>,
      IP4Text \o <<":", "8", "0">>,
      IP4Text,
      IP4Text \o <<":", "w", "e", "b">>,
      IP4Text \o <<":", "6", "5", "5", "3", "6">>,
      IP4Text \o <<":">>,
      <<"l", "h", ":", "8", "0">>,
      <<"l", "h", ":", "w", "e", "b">>,
      <<":", "8", "0">>,
      <<"[", ":", ":", "1", "]", ":", "8", "0">>,
      <<"[", "0", ":", "0", ":", "0", ":", "0", ":", "0", ":", "0", ":", "0",
        ":", "1", "]", ":", "8", "0">>,
      <<":", ":", "1", ":", "8", "0">> }

JoinScheme(transport, security, discovery) ==
    transport
    \o (IF security # <<>> THEN <<"+">> \o security ELSE <<>>)
    \o (IF discovery # <<>> THEN <<".">> \o discovery ELSE <<>>)

\* The URI values a caller hands to the methods: URIs are plain structs,
\* so any combination of identifiers and host may be built.
BareURIs ==
    { URI(JoinScheme(tr, se, di), h, <<>>, tr, se, di) :
        tr \in TransportNames \cup {<<>>},
        se \in SecurityNames \cup {<<>>},
        di \in DiscoveryNames \cup {<<>>},
        h \in Hosts }

\* URIs with every field of the url.URL set.
FullURI(u) ==
    [u EXCEPT !.Path = <<"/", "p">>, !.Opaque = <<"o">>, !.User = "user",
              !.RawPath = <<"/", "p">>, !.ForceQuery = TRUE, !.RawQuery = <<"q">>,
              !.Fragment = <<"f">>, !.RawFragment = <<"f">>]

FullURIs ==
    { FullURI(URI(JoinScheme(TCP, se, <<>>), h, <<>>, TCP, se, <<>>)) :
        se \in SecurityNames \cup {<<>>},
        h \in { IP4Text \o <<":", "8", "0">>,
                <<"l", "h", ":", "8", "0">>,
                <<"l", "h", ":", "w", "e", "b">> } }

URIs == BareURIs \cup FullURIs

\* The raw texts a caller hands to the top-level Dial and Listen.
RawSchemes == {TCP, UDP, TCP \o <<"+">> \o TLS, TCP \o <<".">> \o SRV, <<>>}

RawHosts ==
    { <<>>,
      IP4Text \o <<":", "8", "0">>,
      IP4Text \o <<":", "w", "e", "b">>,
      <<"l", "h", ":", "8", "0">> }

RawURIs ==
    {s \o <<":", "/", "/">> \o h : s \in RawSchemes, h \in RawHosts}
    \cup {<<"/", "/">> \o h : h \in RawHosts}

Configs == {"cfg1", "cfg2"}

\* What a mechanism may return from Dial and from Listen.
DialOuts == {[val |-> "conduit", err |-> Nil], [val |-> Nil, err |-> "MechErr"]}
ListenOuts == {[val |-> "listener", err |-> Nil], [val |-> Nil, err |-> "MechErr"]}

\* What the resolvers may return.
IPs == {IPv4(1, 2, 3, 4), <<0, 0, 0, 0, 0, 0, 0, 1>>}

IPLists == UNION {[1..n -> IPs] : n \in 0..MaxIPs}

LookupIPOuts ==
    {[ips |-> <<>>, err |-> "DNSError"]} \cup {[ips |-> l, err |-> Nil] : l \in IPLists}

LookupPortOuts == {[port |-> 0, err |-> "PortError"], [port |-> 8080, err |-> Nil]}

Found(port) == New(URI(TCP, IP4Text \o <<":">> \o port, <<>>, TCP, <<>>, <<>>))

DiscoverOuts ==
    {[uris |-> <<>>, err |-> "DiscoverError"],
     [uris |-> <<Found(<<"8", "0">>)>>, err |-> "DiscoverError"],
     [uris |-> <<Found(<<"8", "0">>)>>, err |-> Nil],
     [uris |-> <<Found(<<"8", "1">>), Found(<<"8", "0">>)>>, err |-> Nil]}

Init ==
    /\ InitRegistries
    /\ op = "none"
    /\ arg = NoArg
    /\ ret = NoRet
    /\ events = <<>>
    /\ listeners = <<>>
    /\ conns = <<>>
    /\ conduits = <<>>
    /\ NoScenario

RegisterTransport(name, mech) ==
    /\ op = "none"
    /\ transMechs' = MapSet(transMechs, name, mech)
    /\ UNCHANGED <<secMechs, discMechs, op, arg, ret, events, listeners, conns, conduits, scenario>>

\* A variant that writes a security mechanism into the transport registry.
RegisterSecurity_IntoTransport(name, mech) ==
    /\ op = "none"
    /\ transMechs' = MapSet(transMechs, name, mech)
    /\ UNCHANGED <<secMechs, discMechs, op, arg, ret, events, listeners, conns, conduits, scenario>>

RegisterSecurity(name, mech) ==
    /\ op = "none"
    /\ secMechs' = MapSet(secMechs, name, mech)
    /\ UNCHANGED <<transMechs, discMechs, op, arg, ret, events, listeners, conns, conduits, scenario>>

RegisterDiscovery(name, mech) ==
    /\ op = "none"
    /\ discMechs' = MapSet(discMechs, name, mech)
    /\ UNCHANGED <<transMechs, secMechs, op, arg, ret, events, listeners, conns, conduits, scenario>>

\* A call in flight: what was called, with what, what it answered and what
\* it consulted on the way.
Called(name, a, r) ==
    /\ op' = name
    /\ arg' = a
    /\ ret' = [val |-> r.val, err |-> r.err]
    /\ events' = r.events

CalledCanonicalize(a, r) ==
    /\ op' = "Canonicalize"
    /\ arg' = a
    /\ ret' = [uris |-> r.uris, err |-> r.err]
    /\ events' = r.events

IsCanonicalCall(u) ==
    /\ op = "none"
    /\ op' = "IsCanonical"
    /\ arg' = [u |-> u]
    /\ ret' = [val |-> IsCanonical(u), err |-> Nil]
    /\ events' = <<>>
    /\ UNCHANGED <<transMechs, secMechs, discMechs, listeners, conns, conduits, scenario>>

\* The resolvers answer only when asked: their answers vary for the URIs
\* whose canonicalization may reach them.
CanonicalizeCall(u) ==
    /\ op = "none"
    /\ \E disc \in (IF u.Discovery # <<>> THEN DiscoverOuts
                    ELSE {[uris |-> <<>>, err |-> Nil]}),
          dns \in (IF u.Discovery = <<>> /\ u.Host # <<>> THEN LookupIPOuts
                   ELSE {[ips |-> <<>>, err |-> Nil]}),
          svc \in (IF u.Discovery = <<>> /\ u.Host # <<>> THEN LookupPortOuts
                   ELSE {[port |-> 0, err |-> Nil]}) :
          CalledCanonicalize([u |-> u], Canonicalize(u, disc, dns, svc))
    /\ UNCHANGED <<transMechs, secMechs, discMechs, listeners, conns, conduits, scenario>>

\* A variant whose lookup leaves the name it asked for in the registry.
URIDialCall_Inserts(u, config) ==
    /\ op = "none"
    /\ \E out \in DialOuts :
          Called("URIDial", [u |-> u, config |-> config], URIDial(u, config, out))
    /\ transMechs' = MapSet(transMechs, u.Transport, LookupTransport(u.Transport))
    /\ UNCHANGED <<secMechs, discMechs, listeners, conns, conduits, scenario>>

URIDialCall(u, config) ==
    /\ op = "none"
    /\ \E out \in DialOuts :
          Called("URIDial", [u |-> u, config |-> config], URIDial(u, config, out))
    /\ UNCHANGED <<transMechs, secMechs, discMechs, listeners, conns, conduits, scenario>>

URIListenCall(u, config) ==
    /\ op = "none"
    /\ \E out \in ListenOuts :
          Called("URIListen", [u |-> u, config |-> config], URIListen(u, config, out))
    /\ UNCHANGED <<transMechs, secMechs, discMechs, listeners, conns, conduits, scenario>>

DialCall(rawuri, config) ==
    /\ op = "none"
    /\ \E out \in DialOuts :
          Called("Dial", [raw |-> rawuri, config |-> config],
                 Dial(config, rawuri, out))
    /\ UNCHANGED <<transMechs, secMechs, discMechs, listeners, conns, conduits, scenario>>

ListenCall(rawuri, config) ==
    /\ op = "none"
    /\ \E out \in ListenOuts :
          Called("Listen", [raw |-> rawuri, config |-> config],
                 Listen(config, rawuri, out))
    /\ UNCHANGED <<transMechs, secMechs, discMechs, listeners, conns, conduits, scenario>>

\* The caller takes the result; the next call may begin.
Return ==
    /\ op # "none"
    /\ op' = "none"
    /\ arg' = NoArg
    /\ ret' = NoRet
    /\ events' = <<>>
    /\ UNCHANGED <<transMechs, secMechs, discMechs, listeners, conns, conduits, scenario>>

Next ==
    \/ \E n \in TransportNames, m \in TransportMechs \cup {Nil} : RegisterTransport(n, m)
    \/ \E n \in SecurityNames, m \in SecurityMechs \cup {Nil} : RegisterSecurity(n, m)
    \/ \E n \in DiscoveryNames, m \in DiscoveryMechs \cup {Nil} : RegisterDiscovery(n, m)
    \/ \E u \in URIs : IsCanonicalCall(u)
    \/ \E u \in URIs : CanonicalizeCall(u)
    \/ \E u \in URIs, c \in Configs : URIDialCall(u, c)
    \/ \E u \in URIs, c \in Configs : URIListenCall(u, c)
    \/ \E r \in RawURIs, c \in Configs : DialCall(r, c)
    \/ \E r \in RawURIs, c \in Configs : ListenCall(r, c)
    \/ Return

Spec == Init /\ [][Next]_vars

----------------------------------------------------------------------------
(* The parser specification: every scheme text up to MaxSchemeLen, put in  *)
(* front of "://" and a host, is handed to Parse.                          *)

SchemeChars == {"t", "+", "."}

SchemeTexts == UNION {[1..n -> SchemeChars] : n \in 0..MaxSchemeLen}

ParseHost == <<"1", ".", "2", ".", "3", ".", "4", ":", "8", "0">>

ParseInputs == {s \o <<":", "/", "/">> \o ParseHost : s \in SchemeTexts}

InitParse ==
    /\ InitRegistries
    /\ op = "none"
    /\ arg \in ParseInputs
    /\ ret = NoRet
    /\ events = <<>>
    /\ listeners = <<>>
    /\ conns = <<>>
    /\ conduits = <<>>
    /\ NoScenario

ParseCall ==
    /\ op = "none"
    /\ op' = "Parse"
    /\ ret' = Parse(arg)
    /\ UNCHANGED <<transMechs, secMechs, discMechs, arg, events, listeners, conns, conduits, scenario>>

NextParse == ParseCall

SpecParse == InitParse /\ [][NextParse]_vars

----------------------------------------------------------------------------
(* Options and filters: mkDialer and mkListenConfig.  A builder is the     *)
(* record of the fields the options write; an option is a record tagged    *)
(* with its type.  A LocalAddrOption is handed around by pointer, so what a *)
(* filter writes into it is seen by the apply step and by the caller: the  *)
(* result carries the options as the call left them.                       *)

\* Most options in one call.
MaxOpts == 3

KeepAlive(d) == [type |-> "KeepAlive", ka |-> d]
control(c) == [type |-> "control", Control |-> c]
LocalAddr(uri) == [type |-> "LocalAddr", URI |-> uri, Addr |-> Nil]

\* &net.Dialer{} and &net.ListenConfig{}
ZeroDialer == [KeepAlive |-> 0, Control |-> Nil, LocalAddr |-> Nil]
ZeroListenConfig == [KeepAlive |-> 0, Control |-> Nil]

\* A variant in which a field that is set already is left alone.
DialApply_FirstWins(opt, d) ==
    CASE opt.type = "KeepAlive" ->
            IF d.KeepAlive = 0 THEN [d EXCEPT !.KeepAlive = opt.ka] ELSE d
      [] opt.type = "control" ->
            IF d.Control = Nil THEN [d EXCEPT !.Control = opt.Control] ELSE d
      [] opt.type = "LocalAddr" ->
            IF d.LocalAddr = Nil THEN [d EXCEPT !.LocalAddr = opt.Addr] ELSE d

\* A variant in which the local address is never bound.
DialApply_NoLocalAddr(opt, d) ==
    CASE opt.type = "KeepAlive" -> [d EXCEPT !.KeepAlive = opt.ka]
      [] opt.type = "control" -> [d EXCEPT !.Control = opt.Control]
      [] opt.type = "LocalAddr" -> d

\* opt.DialApply(d) of the three option types.
DialApply(opt, d) ==
    CASE opt.type = "KeepAlive" -> [d EXCEPT !.KeepAlive = opt.ka]
      [] opt.type = "control" -> [d EXCEPT !.Control = opt.Control]
      [] opt.type = "LocalAddr" -> [d EXCEPT !.LocalAddr = opt.Addr]

\* opt.ListenApply(lc) of the two option types that have it.
ListenApply(opt, lc) ==
    CASE opt.type = "KeepAlive" -> [lc EXCEPT !.KeepAlive = opt.ka]
      [] opt.type = "control" -> [lc EXCEPT !.Control = opt.Control]

\* The filter of the TCP mechanism: [opt, err], opt being the option as
\* the filter leaves it.  res is what the address resolver answers if it
\* is asked.
tcpDialFilter(opt, res) ==
    IF opt.type # "LocalAddr" THEN [opt |-> opt, err |-> Nil]
    ELSE IF ~IsCanonical(opt.URI) THEN [opt |-> opt, err |-> "ErrNotCanonical"]
    ELSE IF opt.URI.Transport # TCP THEN [opt |-> opt, err |-> "ErrUnknownTransport"]
    ELSE IF res.err # Nil THEN [opt |-> opt, err |-> res.err]
    ELSE [opt |-> [opt EXCEPT !.Addr = res.addr], err |-> Nil]

\* A filter of another mechanism: it refuses the options of a given set.
MockFilter(rejects) == [type |-> "mock", rejects |-> rejects]

tcpFilter == [type |-> "tcpFilter"]

\* The nil filter.
NoFilter == [type |-> "nil"]

\* filt.DialFilter(opt) and filt.ListenFilter(opt)
DialFilter(filt, opt, res) ==
    IF filt.type = "tcpFilter" THEN tcpDialFilter(opt, res)
    ELSE [opt |-> opt, err |-> IF opt \in filt.rejects THEN "FilterError" ELSE Nil]

ListenFilter(filt, opt) ==
    [opt |-> opt, err |-> IF opt \in filt.rejects THEN "FilterError" ELSE Nil]

EvFilter(kind, i, opt, out) == [kind |-> kind, index |-> i, opt |-> opt, out |-> out]
EvApply(kind, i, opt) == [kind |-> kind, index |-> i, opt |-> opt]

Built(result, opts, evs) ==
    [val |-> result, err |-> Nil, opts |-> opts, events |-> evs]

Rejected(err, opts, evs) ==
    [val |-> Nil, err |-> err, opts |-> opts, events |-> evs]

\* The loop of mkDialer from option i on: result is the dialer so far; f
\* is what the filter made of option i.
RECURSIVE mkDialerFrom(_, _, _, _, _, _)
RECURSIVE mkDialerFiltered(_, _, _, _, _, _, _)

\* A variant that applies an option before the filter is heard on it.
mkDialerFiltered_ApplyFirst(opts, filt, res, i, result, evs, f) ==
    IF f.err # Nil
    THEN Rejected(f.err, [opts EXCEPT ![i] = f.opt],
                  evs \o <<EvApply("DialApply", i, opts[i]),
                           EvFilter("DialFilter", i, opts[i], f)>>)
    ELSE mkDialerFrom([opts EXCEPT ![i] = f.opt], filt, res, i + 1,
                      DialApply(opts[i], result),
                      evs \o <<EvApply("DialApply", i, opts[i]),
                               EvFilter("DialFilter", i, opts[i], f)>>)

mkDialerFiltered(opts, filt, res, i, result, evs, f) ==
    IF f.err # Nil
    THEN Rejected(f.err, [opts EXCEPT ![i] = f.opt],
                  evs \o <<EvFilter("DialFilter", i, opts[i], f)>>)
    ELSE mkDialerFrom([opts EXCEPT ![i] = f.opt], filt, res, i + 1,
                      DialApply(f.opt, result),
                      evs \o <<EvFilter("DialFilter", i, opts[i], f),
                               EvApply("DialApply", i, f.opt)>>)

mkDialerFrom(opts, filt, res, i, result, evs) ==
    IF i > Len(opts) THEN Built(result, opts, evs)
    ELSE IF filt # NoFilter
    THEN mkDialerFiltered(opts, filt, res, i, result, evs,
                          DialFilter(filt, opts[i], res))
    ELSE mkDialerFrom(opts, filt, res, i + 1, DialApply(opts[i], result),
                      evs \o <<EvApply("DialApply", i, opts[i])>>)

mkDialer(opts, filt, res) == mkDialerFrom(opts, filt, res, 1, ZeroDialer, <<>>)

\* The loop of mkListenConfig, likewise.
RECURSIVE mkListenConfigFrom(_, _, _, _, _)
RECURSIVE mkListenConfigFiltered(_, _, _, _, _, _)

mkListenConfigFiltered(opts, filt, i, result, evs, f) ==
    IF f.err # Nil
    THEN Rejected(f.err, [opts EXCEPT ![i] = f.opt],
                  evs \o <<EvFilter("ListenFilter", i, opts[i], f)>>)
    ELSE mkListenConfigFrom([opts EXCEPT ![i] = f.opt], filt, i + 1,
                            ListenApply(f.opt, result),
                            evs \o <<EvFilter("ListenFilter", i, opts[i], f),
                                     EvApply("ListenApply", i, f.opt)>>)

mkListenConfigFrom(opts, filt, i, result, evs) ==
    IF i > Len(opts) THEN Built(result, opts, evs)
    ELSE IF filt # NoFilter
    THEN mkListenConfigFiltered(opts, filt, i, result, evs,
                                ListenFilter(filt, opts[i]))
    ELSE mkListenConfigFrom(opts, filt, i + 1, ListenApply(opts[i], result),
                            evs \o <<EvApply("ListenApply", i, opts[i])>>)

mkListenConfig(opts, filt) ==
    mkListenConfigFrom(opts, filt, 1, ZeroListenConfig, <<>>)

\* The options specification: every list of up to MaxOpts options, with no
\* filter, with a filter that refuses some options and (for a dialer) with
\* the TCP filter, is handed to mkDialer or to mkListenConfig.
AddrURIs ==
    { URI(TCP, IP4Text \o <<":", "8", "0">>, <<>>, TCP, <<>>, <<>>),
      URI(UDP, IP4Text \o <<":", "8", "0">>, <<>>, UDP, <<>>, <<>>),
      URI(UDP, <<"l", "h", ":", "8", "0">>, <<>>, UDP, <<>>, <<>>) }

ListenerOptions == {KeepAlive(1), KeepAlive(2), control("c1"), control("c2")}

DialerOptions == ListenerOptions \cup {LocalAddr(u) : u \in AddrURIs}

OptionLists(options) == UNION {[1..n -> options] : n \in 0..MaxOpts}

MockFilters == {MockFilter({}), MockFilter({KeepAlive(2)}), MockFilter({control("c1")})}

ResolveOuts == {[addr |-> "TCPAddr", err |-> Nil], [addr |-> Nil, err |-> "ResolveError"]}

NoResolve == [addr |-> Nil, err |-> Nil]

OptionInputs ==
    {[for |-> "dial", opts |-> l, filt |-> f, res |-> NoResolve] :
        l \in OptionLists(DialerOptions), f \in MockFilters \cup {NoFilter}}
    \cup {[for |-> "dial", opts |-> l, filt |-> tcpFilter, res |-> r] :
        l \in OptionLists(DialerOptions), r \in ResolveOuts}
    \cup {[for |-> "listen", opts |-> l, filt |-> f, res |-> NoResolve] :
        l \in OptionLists(ListenerOptions), f \in MockFilters \cup {NoFilter}}

InitOptions ==
    /\ InitRegistries
    /\ op = "none"
    /\ arg \in OptionInputs
    /\ ret = NoRet
    /\ events = <<>>
    /\ listeners = <<>>
    /\ conns = <<>>
    /\ conduits = <<>>
    /\ NoScenario

Made(name, r) ==
    /\ op' = name
    /\ ret' = [val |-> r.val, err |-> r.err, opts |-> r.opts]
    /\ events' = r.events

MkDialerCall ==
    /\ op = "none"
    /\ arg.for = "dial"
    /\ Made("mkDialer", mkDialer(arg.opts, arg.filt, arg.res))
    /\ UNCHANGED <<transMechs, secMechs, discMechs, arg, listeners, conns, conduits, scenario>>

MkListenConfigCall ==
    /\ op = "none"
    /\ arg.for = "listen"
    /\ Made("mkListenConfig", mkListenConfig(arg.opts, arg.filt))
    /\ UNCHANGED <<transMechs, secMechs, discMechs, arg, listeners, conns, conduits, scenario>>

NextOptions == MkDialerCall \/ MkListenConfigCall

SpecOptions == InitOptions /\ [][NextOptions]_vars

----------------------------------------------------------------------------
(* The TCP mechanism.  The network is the environment: it binds listeners, *)
(* establishes connections and picks the ports left to it; what it picks   *)
(* or refuses is the parameter out of the native calls.                    *)

\* The most sockets the network is asked for: listeners and connections.
MaxSockets == 3

\* url.URL.String() for the URLs at hand (no user information, and only
\* characters that need no escaping): scheme ':' then the opaque part, or
\* "//" host and the path (a '/' put before a relative path that follows a
\* host), then '?' query and '#' fragment.
URLAuthority(u) ==
    IF u.Scheme # <<>> \/ u.Host # <<>>
    THEN (IF u.Host # <<>> \/ u.Path # <<>> THEN <<"/", "/">> ELSE <<>>) \o u.Host
    ELSE <<>>

URLPath(u) ==
    IF u.Path # <<>> /\ u.Path[1] # "/" /\ u.Host # <<>>
    THEN <<"/">> \o u.Path
    ELSE u.Path

URLString(u) ==
    (IF u.Scheme # <<>> THEN u.Scheme \o <<":">> ELSE <<>>)
    \o (IF u.Opaque # <<>> THEN u.Opaque ELSE URLAuthority(u) \o URLPath(u))
    \o (IF u.ForceQuery \/ u.RawQuery # <<>> THEN <<"?">> \o u.RawQuery ELSE <<>>)
    \o (IF u.Fragment # <<>> THEN <<"#">> \o u.Fragment ELSE <<>>)

\* net.TCPAddr and its String(): the address and the decimal port, joined.
TCPAddr(ip, port) == [IP |-> ip, Port |-> port]

TCPAddrString(addr) == JoinHostPort(IPString(addr.IP), FormatUint(addr.Port))

\* TCPAddr2URI(addr)
TCPAddr2URI(addr) == URI(TCP, TCPAddrString(addr), <<>>, TCP, <<>>, <<>>)

\* What the net package makes of the host text handed to Listen and to
\* DialContext: [ok, addr].  Only literal addresses with a decimal port
\* resolve here.
ResolveHostPort(hp) ==
    IF ~hp.ok THEN [ok |-> FALSE, addr |-> Nil]
    ELSE IF ParseIP(hp.host) = NoIP \/ ~ParseUint16(hp.port).ok
    THEN [ok |-> FALSE, addr |-> Nil]
    ELSE [ok |-> TRUE, addr |-> TCPAddr(ParseIP(hp.host), ParseUint16(hp.port).val)]

ResolveTCPAddr(host) == ResolveHostPort(SplitHostPort(host))

\* The open native listener bound to addr: its index in ls, 0 without one.
Listening(addr, ls) ==
    IF \E i \in 1..Len(ls) : ls[i].L.addr = addr /\ ~ls[i].L.closed
    THEN CHOOSE i \in 1..Len(ls) : ls[i].L.addr = addr /\ ~ls[i].L.closed
    ELSE 0

\* type Conduit struct, every field at its zero value, and the composite
\* literal of Dial and Accept, which sets four of the fields.
ZeroConduit ==
    [State |-> "Undefined", Error |-> Nil, MinProto |-> 0, MaxProto |-> 0,
     Proto |-> 0, RTT |-> 0, Deviation |-> 0, Peer |-> Nil,
     Confidential |-> FALSE, Integrity |-> FALSE, Principal |-> <<>>,
     Strength |-> 0, LocalURI |-> Nil, RemoteURI |-> Nil, Link |-> Nil]

Conduit(state, localURI, remoteURI, link) ==
    [ZeroConduit EXCEPT !.State = state, !.LocalURI = localURI,
                        !.RemoteURI = remoteURI, !.Link = link]

\* The two ends of connection c as net.Conn values.
DialedConn(c) == [conn |-> c, end |-> "dialed"]
AcceptedConn(c) == [conn |-> c, end |-> "accepted"]

NativeError(err) == [val |-> Nil, err |-> err, conn |-> Nil]

\* dialer.DialContext(ctx, "tcp", u.Host): ra is the resolved host, out the
\* network's answer (an error of its own, or the local port of the new
\* connection), c the number the new connection gets.
DialContext(dialer, ra, out, ls, c) ==
    IF ~ra.ok THEN NativeError("AddrError")
    ELSE IF out.err # Nil THEN NativeError(out.err)
    ELSE IF Listening(ra.addr, ls) = 0 THEN NativeError("ECONNREFUSED")
    ELSE [val |-> DialedConn(c), err |-> Nil,
          conn |-> [local |-> TCPAddr(ra.addr.IP, out.port), remote |-> ra.addr,
                    listener |-> Listening(ra.addr, ls), accepted |-> FALSE]]

\* TCPMech.Dial, from the answer of DialContext on.
TCPMechDial_FreshRemote(u, d) ==
    IF d.err # Nil THEN NativeError(d.err)
    ELSE [val |-> Conduit("Active", New(TCPAddr2URI(d.conn.local)),
                          New(TCPAddr2URI(d.conn.remote)), d.val),
          err |-> Nil, conn |-> d.conn]

TCPMechDialed(u, d) ==
    IF d.err # Nil THEN NativeError(d.err)
    ELSE [val |-> Conduit("Active", New(TCPAddr2URI(d.conn.local)), Self(u), d.val),
          err |-> Nil, conn |-> d.conn]

\* TCPMech.Dial(ctx, config, u, opts)
TCPMechDial(u, opts, out, ls, c) ==
    TCPMechDialed(u, DialContext(mkDialer(opts, NoFilter, NoResolve).val,
                                 ResolveTCPAddr(u.Host), out, ls, c))

\* lc.Listen(ctx, "tcp", u.Host): a port of 0 is replaced by the port the
\* network picks; a port bound by an open listener is refused.
ListenConfigListen(lc, ra, out, ls) ==
    IF ~ra.ok THEN [val |-> Nil, err |-> "AddrError"]
    ELSE IF out.err # Nil THEN [val |-> Nil, err |-> out.err]
    ELSE IF ra.addr.Port = 0
    THEN [val |-> [addr |-> TCPAddr(ra.addr.IP, out.port), lc |-> lc, closed |-> FALSE],
          err |-> Nil]
    ELSE IF Listening(ra.addr, ls) # 0 THEN [val |-> Nil, err |-> "EADDRINUSE"]
    ELSE [val |-> [addr |-> ra.addr, lc |-> lc, closed |-> FALSE], err |-> Nil]

\* TCPMech.Listen, from the answer of lc.Listen on: a TCPListener.
TCPMechListen_AskedURI(u, l) ==
    IF l.err # Nil THEN [val |-> Nil, err |-> l.err]
    ELSE [val |-> [L |-> l.val, URI |-> Self(u)], err |-> Nil]

TCPMechListened(u, l) ==
    IF l.err # Nil THEN [val |-> Nil, err |-> l.err]
    ELSE [val |-> [L |-> l.val, URI |-> New(TCPAddr2URI(l.val.addr))], err |-> Nil]

\* A variant that puts its own option first.
TCPMechListen_Prepends(u, opts, out, ls) ==
    TCPMechListened(u,
        ListenConfigListen(mkListenConfig(<<control("tcpReuseAddr")>> \o opts,
                                          NoFilter).val,
                           ResolveTCPAddr(u.Host), out, ls))

\* TCPMech.Listen(ctx, config, u, opts)
TCPMechListen(u, opts, out, ls) ==
    TCPMechListened(u,
        ListenConfigListen(mkListenConfig(Append(opts, control("tcpReuseAddr")),
                                          NoFilter).val,
                           ResolveTCPAddr(u.Host), out, ls))

\* l.L.Accept(): the oldest connection to the listener not yet accepted;
\* 0 when there is none and the call would block.
Pending(l, cs) ==
    IF \E c \in 1..Len(cs) : cs[c].listener = l /\ ~cs[c].accepted
    THEN CHOOSE c \in 1..Len(cs) :
            /\ cs[c].listener = l /\ ~cs[c].accepted
            /\ \A b \in 1..(c - 1) : ~(cs[b].listener = l /\ ~cs[b].accepted)
    ELSE 0

NetAccept(lis, l, out, cs) ==
    IF lis.L.closed THEN NativeError("ErrClosed")
    ELSE IF out.err # Nil THEN NativeError(out.err)
    ELSE [val |-> AcceptedConn(Pending(l, cs)), err |-> Nil, conn |-> Pending(l, cs)]

\* (*TCPListener).Accept, from the answer of l.L.Accept on.  The remote
\* address of the accepted end is the local address of the dialed end.
TCPListenerAccept_NoState(lis, a, cs) ==
    IF a.err # Nil THEN NativeError(a.err)
    ELSE [val |-> [ZeroConduit EXCEPT !.LocalURI = lis.URI,
                       !.RemoteURI = New(TCPAddr2URI(cs[a.conn].local)),
                       !.Link = a.val],
          err |-> Nil, conn |-> a.conn]

TCPListenerAccepted(lis, a, cs) ==
    IF a.err # Nil THEN NativeError(a.err)
    ELSE [val |-> Conduit("Passive", lis.URI,
                          New(TCPAddr2URI(cs[a.conn].local)), a.val),
          err |-> Nil, conn |-> a.conn]

TCPListenerAccept(lis, l, out, cs) ==
    TCPListenerAccepted(lis, NetAccept(lis, l, out, cs), cs)

\* (*TCPListener).Close: the answer of l.L.Close().
TCPListenerClose(lis) == IF lis.L.closed THEN "ErrClosed" ELSE Nil

\* (*TCPListener).Addr
TCPListenerAddr(lis) == lis.URI

\* The TCP specification.  Listeners are opened on texts as the functional
\* test opens them (parsed first), clients dial the text a listener reports
\* (parsed again) or a fixed address; the network serves two loopback
\* addresses and a few ports and may refuse any call.
ListenTexts ==
    { <<"t", "c", "p", ":", "/", "/", "1", "2", "7", ".", "0", ".", "0", ".", "1", ":", "0">>,
      <<"t", "c", "p", ":", "/", "/", "[", ":", ":", "1", "]", ":", "0">>,
      <<"t", "c", "p", ":", "/", "/", "1", "2", "7", ".", "0", ".", "0", ".", "1", ":", "8", "0">>,
      <<"t", "c", "p", ":", "/", "/", "1", "2", "7", ".", "0", ".", "0", ".", "1">> }

DialTexts(ls) ==
    {URLString(TCPListenerAddr(ls[l]).uri) : l \in 1..Len(ls)}
    \cup {<<"t", "c", "p", ":", "/", "/", "1", "2", "7", ".", "0", ".", "0", ".", "1", ":", "9">>}

ParsedURIs(texts) == {Parse(t).uri : t \in {x \in texts : Parse(x).err = Nil}}

EphemeralPorts == 49152..49155

NetOuts ==
    {[err |-> Nil, port |-> p] : p \in EphemeralPorts}
    \cup {[err |-> "NetError", port |-> 0]}

AcceptOuts == {[err |-> Nil, port |-> 0], [err |-> "NetError", port |-> 0]}

\* The network never hands out a port that an open listener or one end of
\* a connection holds on the same address.  Free ports are interchangeable:
\* it hands out the lowest.
PortFree(ip, port, ls, cs) ==
    /\ Listening(TCPAddr(ip, port), ls) = 0
    /\ \A c \in 1..Len(cs) : cs[c].local # TCPAddr(ip, port)

PortPicked(ip, out, ls, cs) ==
    out.err = Nil =>
        /\ PortFree(ip, out.port, ls, cs)
        /\ \A q \in EphemeralPorts : q < out.port => ~PortFree(ip, q, ls, cs)

OutFits(host, out, ls, cs) ==
    ResolveTCPAddr(host).ok => PortPicked(ResolveTCPAddr(host).addr.IP, out, ls, cs)

TCPOptions == {<<KeepAlive(30)>>}

InitTCP ==
    /\ InitRegistries
    /\ op = "none"
    /\ arg = NoArg
    /\ ret = NoRet
    /\ events = <<>>
    /\ listeners = <<>>
    /\ conns = <<>>
    /\ conduits = <<>>
    /\ NoScenario

TCPReturned(name, a, r) ==
    /\ op' = name
    /\ arg' = a
    /\ ret' = [val |-> r.val, err |-> r.err]
    /\ conduits' = IF r.err = Nil /\ name \in {"Dial", "Accept"}
                   THEN Append(conduits, [from |-> name, val |-> r.val])
                   ELSE conduits
    /\ UNCHANGED <<transMechs, secMechs, discMechs, events, scenario>>

TCPListenDone(u, opts, r) ==
    /\ TCPReturned("Listen", [u |-> u, opts |-> opts], r)
    /\ listeners' = IF r.err = Nil THEN Append(listeners, r.val) ELSE listeners
    /\ UNCHANGED conns

TCPListenCall(u, opts, out) ==
    /\ Len(listeners) + Len(conns) < MaxSockets
    /\ OutFits(u.Host, out, listeners, conns)
    /\ TCPListenDone(u, opts, TCPMechListen(u, opts, out, listeners))

TCPDialDone(u, opts, r) ==
    /\ TCPReturned("Dial", [u |-> u, opts |-> opts], r)
    /\ conns' = IF r.err = Nil THEN Append(conns, r.conn) ELSE conns
    /\ UNCHANGED listeners

TCPDialCall(u, opts, out) ==
    /\ Len(listeners) + Len(conns) < MaxSockets
    /\ OutFits(u.Host, out, listeners, conns)
    /\ TCPDialDone(u, opts, TCPMechDial(u, opts, out, listeners, Len(conns) + 1))

\* Accept returns when the listener is closed, when a connection is
\* pending, or when the network reports an error; it blocks otherwise.
TCPAcceptDone(l, r) ==
    /\ TCPReturned("Accept", [l |-> l], r)
    /\ conns' = IF r.err = Nil THEN [conns EXCEPT ![r.conn].accepted = TRUE] ELSE conns
    /\ UNCHANGED listeners

TCPAcceptCall(l, out) ==
    /\ listeners[l].L.closed \/ out.err # Nil \/ Pending(l, conns) # 0
    /\ TCPAcceptDone(l, TCPListenerAccept(listeners[l], l, out, conns))

TCPCloseCall(l) ==
    /\ TCPReturned("Close", [l |-> l],
                   [val |-> Nil, err |-> TCPListenerClose(listeners[l])])
    /\ listeners' = [listeners EXCEPT ![l].L.closed = TRUE]
    /\ UNCHANGED conns

TCPAddrCall(l) ==
    /\ op' = "Addr"
    /\ arg' = [l |-> l]
    /\ ret' = [val |-> TCPListenerAddr(listeners[l]), err |-> Nil]
    /\ UNCHANGED <<transMechs, secMechs, discMechs, events, listeners, conns, conduits, scenario>>

NextTCP ==
    \/ \E u \in ParsedURIs(ListenTexts), opts \in TCPOptions, out \in NetOuts :
           TCPListenCall(u, opts, out)
    \/ \E u \in ParsedURIs(DialTexts(listeners)), opts \in TCPOptions, out \in NetOuts :
           TCPDialCall(u, opts, out)
    \/ \E l \in 1..Len(listeners), out \in AcceptOuts :
           TCPAcceptCall(l, out)
    \/ \E l \in 1..Len(listeners) : TCPCloseCall(l)
    \/ \E l \in 1..Len(listeners) : TCPAddrCall(l)

SpecTCP == InitTCP /\ [][NextTCP]_vars

\* The listen specification: one Listen is called, with every list of up
\* to MaxOpts caller options.
TCPListenOnce(u, opts, out) ==
    /\ op = "none"
    /\ TCPListenCall(u, opts, out)

NextListen ==
    \E u \in ParsedURIs(ListenTexts), opts \in OptionLists(ListenerOptions),
       out \in NetOuts : TCPListenOnce(u, opts, out)

SpecListen == InitTCP /\ [][NextListen]_vars

\* The close specification: the TCP specification, and Close called on
\* the conduits that Dial and Accept returned, up to MaxCloses times in
\* all.  A link records the calls made of its Close in events.
MaxCloses == 2

LinkClose(link) == [call |-> "Close", link |-> link]

\* A variant that calls the link's Close on the first Close only.
ConduitClose_Guarded(c, evs) ==
    IF \E k \in 1..Len(evs) : evs[k] = LinkClose(c.Link) THEN evs
    ELSE Append(evs, LinkClose(c.Link))

\* (*Conduit).Close: c.link.Close()
ConduitClose(c, evs) == Append(evs, LinkClose(c.Link))

ConduitCloseCall(i) ==
    /\ Len(events) < MaxCloses
    /\ op' = "Conduit.Close"
    /\ arg' = [c |-> conduits[i].val]
    /\ ret' = NoRet
    /\ events' = ConduitClose(conduits[i].val, events)
    /\ UNCHANGED <<transMechs, secMechs, discMechs, listeners, conns, conduits, scenario>>

NextClose ==
    \/ NextTCP
    \/ \E i \in 1..Len(conduits) : ConduitCloseCall(i)

SpecClose == InitTCP /\ [][NextClose]_vars

----------------------------------------------------------------------------
(* The functional test: an echo server on a listener, two clients that dial *)
(* it, each sending its messages one by one and reading a reply to each.    *)
(* The goroutines are the test itself (main), the server's accept loop, one *)
(* Echo per accepted conduit and one Send per client; one action is one     *)
(* step of one goroutine up to its next blocking call.                      *)

MaxMsgs == 2

\* The size of the buffer Echo reads into, and of the one Send reads into.
EchoBuf == 1024
SendBuf == 1024

\* Bytes are named, not spelled out: len bytes of message msg of client
\* cli, from offset off on.  A byte slice is a sequence of such runs in
\* which no run continues the one before it, so that equal slices are equal
\* sequences.
Bytes(cli, msg, off, len) == [cli |-> cli, msg |-> msg, off |-> off, len |-> len]

Message(cli, msg, len) == IF len = 0 THEN <<>> ELSE <<Bytes(cli, msg, 0, len)>>

Continues(a, b) == a.cli = b.cli /\ a.msg = b.msg /\ a.off + a.len = b.off

\* append(a, b...)
Join(a, b) ==
    IF a = <<>> THEN b
    ELSE IF b = <<>> THEN a
    ELSE IF Continues(a[Len(a)], b[1])
    THEN SubSeq(a, 1, Len(a) - 1)
         \o <<[a[Len(a)] EXCEPT !.len = @ + b[1].len]>>
         \o Tail(b)
    ELSE a \o b

\* The first n bytes of q, and q without them.
RECURSIVE Take(_, _)
Take(q, n) ==
    IF n = 0 \/ q = <<>> THEN <<>>
    ELSE IF Head(q).len <= n THEN <<Head(q)>> \o Take(Tail(q), n - Head(q).len)
    ELSE <<[Head(q) EXCEPT !.len = n]>>

RECURSIVE Drop(_, _)
Drop(q, n) ==
    IF n = 0 \/ q = <<>> THEN q
    ELSE IF Head(q).len <= n THEN Drop(Tail(q), n - Head(q).len)
    ELSE <<[Head(q) EXCEPT !.off = @ + n, !.len = @ - n]>> \o Tail(q)

\* A Go map from strings to slices: m[k] of a missing key is the nil slice.
SliceAt(m, k) == IF k \in DOMAIN m THEN m[k] ELSE <<>>
SlicePut(m, k, v) == [x \in DOMAIN m \cup {k} |-> IF x = k THEN v ELSE m[x]]

\* A connection's bytes under way: up from the dialing end to the accepted
\* end, down the other way.  closed: the dialing end was closed.  reset: it
\* was closed with bytes unread, or written to after it was closed.
Wire == [up |-> <<>>, down |-> <<>>, closed |-> FALSE, reset |-> FALSE]

\* The test goes on until a goroutine panics.
Running == server.accept # "panic"

\* The steps of the test leave the registries and the record of the last
\* call alone.
ScenarioStep == UNCHANGED <<transMechs, secMechs, discMechs, op, arg, ret, events>>

\* NewServer(cfg, uri), from the answer of conduit.Listen on.
NewServerDone(r) ==
    /\ r.err = Nil
    /\ listeners' = Append(listeners, r.val)
    /\ server' = [Listener |-> Len(listeners) + 1,
                  URI |-> URLString(TCPListenerAddr(r.val).uri),
                  Data |-> <<>>, Errors |-> <<>>, AcceptErr |-> Nil,
                  Wg |-> 0, accept |-> "idle", on |-> 0, echo |-> <<>>]
    /\ main' = [main EXCEPT !.pc = "Start"]
    /\ ScenarioStep
    /\ UNCHANGED <<conns, conduits, clients, wire>>

\* conduit.Listen parses the text and hands the URI, canonical and with
\* transport tcp, to the TCP mechanism.
ExecuteNewServer(out) ==
    /\ main.pc = "NewServer"
    /\ out.err = Nil
    /\ OutFits(Parse(arg.URI).uri.Host, out, listeners, conns)
    /\ NewServerDone(TCPMechListen(Parse(arg.URI).uri, <<>>, out, listeners))

\* (*Server).Start
ServerStart ==
    /\ main.pc = "Start"
    /\ server' = [server EXCEPT !.Wg = @ + 1, !.accept = "call"]
    /\ main' = [main EXCEPT !.pc = "NewClient"]
    /\ ScenarioStep
    /\ UNCHANGED <<listeners, conns, conduits, clients, wire>>

\* NewClient(wg, cfg, uri, data), from the answer of conduit.Dial on.
NewClientDone(r, data) ==
    /\ r.err = Nil
    /\ conns' = Append(conns, r.conn)
    /\ conduits' = Append(conduits, [from |-> "Dial", val |-> r.val])
    /\ wire' = Append(wire, Wire)
    /\ clients' = Append(clients, [Conduit |-> r.val,
                                   URI |-> URLString(r.val.LocalURI.uri),
                                   Out |-> data, In |-> <<>>, Error |-> Nil,
                                   pc |-> "new", i |-> 1])
    /\ main' = [main EXCEPT !.pc = IF Len(clients) = 0 THEN "NewClient" ELSE "StartClients"]
    /\ ScenarioStep
    /\ UNCHANGED <<listeners, server>>

ExecuteNewClient(out) ==
    /\ Running
    /\ main.pc = "NewClient"
    /\ out.err = Nil
    /\ OutFits(Parse(server.URI).uri.Host, out, listeners, conns)
    /\ NewClientDone(TCPMechDial(Parse(server.URI).uri, <<>>, out, listeners, Len(conns) + 1),
                     IF Len(clients) = 0 THEN arg.Cli1 ELSE arg.Cli2)

\* (*Client).Start, of the first client and then of the second.
ClientStart(k) ==
    /\ Running
    /\ main.pc = "StartClients"
    /\ clients[k].pc = "new"
    /\ \A j \in 1..(k - 1) : clients[j].pc # "new"
    /\ clients' = [clients EXCEPT ![k].pc = "write"]
    /\ main' = [main EXCEPT !.wg = @ + 1,
                            !.pc = IF k = Len(clients) THEN "Wait" ELSE "StartClients"]
    /\ ScenarioStep
    /\ UNCHANGED <<listeners, conns, conduits, server, wire>>

\* wg.Wait() returns.
ExecuteWaited ==
    /\ Running
    /\ main.pc = "Wait"
    /\ main.wg = 0
    /\ main' = [main EXCEPT !.pc = "Close"]
    /\ ScenarioStep
    /\ UNCHANGED <<listeners, conns, conduits, server, clients, wire>>

\* (*Server).Close up to s.Wg.Wait(): called by the test and once more as
\* it returns.
ServerClose ==
    /\ Running
    /\ main.pc \in {"Close", "DeferredClose"}
    /\ listeners' = IF server.Listener # 0
                    THEN [listeners EXCEPT ![server.Listener].L.closed = TRUE]
                    ELSE listeners
    /\ server' = [server EXCEPT !.Listener = 0]
    /\ main' = [main EXCEPT !.pc = IF main.pc = "Close" THEN "ServerWait" ELSE "DeferredWait"]
    /\ ScenarioStep
    /\ UNCHANGED <<conns, conduits, clients, wire>>

\* s.Wg.Wait() returns, and (*Server).Close with it.
ServerClosed ==
    /\ Running
    /\ main.pc \in {"ServerWait", "DeferredWait"}
    /\ server.Wg = 0
    /\ main' = [main EXCEPT !.pc = IF main.pc = "ServerWait" THEN "Check" ELSE "done"]
    /\ ScenarioStep
    /\ UNCHANGED <<listeners, conns, conduits, server, clients, wire>>

\* The test looks at the clients and at the server, and returns.
ExecuteChecked ==
    /\ Running
    /\ main.pc = "Check"
    /\ main' = [main EXCEPT !.pc = "DeferredClose"]
    /\ ScenarioStep
    /\ UNCHANGED <<listeners, conns, conduits, server, clients, wire>>

\* (*Server).Accept, top of the loop: s.Listener is read, without the lock
\* that Close holds when it writes it, and Accept called on what was read.
\* The read sees the field as it is or as it was before Close wrote it; a
\* call on nil panics, and the deferred s.Wg.Done() runs.
AcceptEnter(seen) ==
    /\ Running
    /\ server.accept = "call"
    /\ server' = IF seen = 0
                 THEN [server EXCEPT !.accept = "panic", !.Wg = @ - 1]
                 ELSE [server EXCEPT !.accept = "wait", !.on = seen]
    /\ ScenarioStep
    /\ UNCHANGED <<listeners, conns, conduits, clients, main, wire>>

\* (*Server).Accept, from the answer of s.Listener.Accept() on.
AcceptReturned(r) ==
    /\ server' = IF r.err # Nil
                 THEN [server EXCEPT !.AcceptErr = r.err, !.accept = "done", !.Wg = @ - 1]
                 ELSE [server EXCEPT !.accept = "call", !.Wg = @ + 1,
                                     !.echo = Append(@, [c |-> r.val, conn |-> r.conn,
                                                         pc |-> "read", buf |-> <<>>])]
    /\ conns' = IF r.err = Nil THEN [conns EXCEPT ![r.conn].accepted = TRUE] ELSE conns
    /\ conduits' = IF r.err = Nil
                   THEN Append(conduits, [from |-> "Accept", val |-> r.val])
                   ELSE conduits
    /\ ScenarioStep
    /\ UNCHANGED <<listeners, clients, main, wire>>

\* Accept returns when the listener is closed or a connection is pending.
AcceptReturn ==
    /\ Running
    /\ server.accept = "wait"
    /\ listeners[server.on].L.closed \/ Pending(server.on, conns) # 0
    /\ AcceptReturned(TCPListenerAccept(listeners[server.on], server.on,
                                        [err |-> Nil, port |-> 0], conns))

\* A variant that files what it reads under the conduit's local URI.
EchoURI_Local(c) == URLString(c.LocalURI.uri)

\* (*Server).Echo: uri := c.RemoteURI.String()
EchoURI(c) == URLString(c.RemoteURI.uri)

\* (*Server).Echo, c.Link.Read(buf) and what follows it up to the Write.
\* Read returns the bytes that have arrived, as many as the buffer takes;
\* it fails on a connection that was reset, and with io.EOF when the peer
\* has closed and nothing is left to read.
EchoRead(h) ==
    /\ Running
    /\ server.echo[h].pc = "read"
    /\ wire[server.echo[h].conn].up # <<>> \/ wire[server.echo[h].conn].closed
    /\ server' =
         IF wire[server.echo[h].conn].reset
         THEN [server EXCEPT !.Errors = SlicePut(@, EchoURI(server.echo[h].c),
                                               "ECONNRESET"),
                             !.echo[h].pc = "done", !.Wg = @ - 1]
         ELSE IF wire[server.echo[h].conn].up = <<>>
         THEN [server EXCEPT !.echo[h].pc = "done", !.Wg = @ - 1]
         ELSE [server EXCEPT
                 !.Data = SlicePut(@, EchoURI(server.echo[h].c),
                                 Append(SliceAt(@, EchoURI(server.echo[h].c)),
                                        Take(wire[server.echo[h].conn].up, EchoBuf))),
                 !.echo[h].buf = Take(wire[server.echo[h].conn].up, EchoBuf),
                 !.echo[h].pc = "write"]
    /\ wire' = IF wire[server.echo[h].conn].reset THEN wire
               ELSE [wire EXCEPT ![server.echo[h].conn].up = Drop(@, EchoBuf)]
    /\ ScenarioStep
    /\ UNCHANGED <<listeners, conns, conduits, clients, main>>

\* (*Server).Echo, c.Link.Write(buf[:inLen]) and what follows it.  A write
\* to a peer that has closed resets the connection, and fails or not.
EchoWrite(h, err) ==
    /\ Running
    /\ server.echo[h].pc = "write"
    /\ err # Nil => wire[server.echo[h].conn].closed
    /\ server' =
         IF err # Nil
         THEN [server EXCEPT !.Errors = SlicePut(@, EchoURI(server.echo[h].c),
                                               err),
                             !.echo[h].pc = "done", !.Wg = @ - 1]
         ELSE [server EXCEPT !.echo[h].pc = "read"]
    /\ wire' = IF wire[server.echo[h].conn].closed
               THEN [wire EXCEPT ![server.echo[h].conn].reset = TRUE]
               ELSE [wire EXCEPT ![server.echo[h].conn].down = Join(@, server.echo[h].buf)]
    /\ ScenarioStep
    /\ UNCHANGED <<listeners, conns, conduits, clients, main>>

\* (*Client).Send, c.Conduit.Link.Write(buf) for the next message.
ClientWrite(k) ==
    /\ Running
    /\ clients[k].pc = "write"
    /\ clients[k].i <= Len(clients[k].Out)
    /\ wire' = [wire EXCEPT ![clients[k].Conduit.Link.conn].up =
                                Join(@, clients[k].Out[clients[k].i])]
    /\ clients' = [clients EXCEPT ![k].pc = "read"]
    /\ ScenarioStep
    /\ UNCHANGED <<listeners, conns, conduits, server, main>>

\* (*Client).Send, c.Conduit.Link.Read(inBuf) and the append to c.In.
ClientRead(k) ==
    /\ Running
    /\ clients[k].pc = "read"
    /\ wire[clients[k].Conduit.Link.conn].down # <<>>
    /\ clients' = [clients EXCEPT
                     ![k].In = Append(@, Take(wire[clients[k].Conduit.Link.conn].down,
                                              SendBuf)),
                     ![k].i = @ + 1,
                     ![k].pc = "write"]
    /\ wire' = [wire EXCEPT ![clients[k].Conduit.Link.conn].down = Drop(@, SendBuf)]
    /\ ScenarioStep
    /\ UNCHANGED <<listeners, conns, conduits, server, main>>

\* (*Client).Send returns: the deferred Link.Close() and Wg.Done().
ClientDone(k) ==
    /\ Running
    /\ clients[k].pc = "write"
    /\ clients[k].i > Len(clients[k].Out)
    /\ wire' = [wire EXCEPT ![clients[k].Conduit.Link.conn].closed = TRUE,
                            ![clients[k].Conduit.Link.conn].reset =
                                wire[clients[k].Conduit.Link.conn].down # <<>>]
    /\ clients' = [clients EXCEPT ![k].pc = "done"]
    /\ main' = [main EXCEPT !.wg = @ - 1]
    /\ ScenarioStep
    /\ UNCHANGED <<listeners, conns, conduits, server>>

\* The scenarios: the listen text of the test, and for each client up to
\* MaxMsgs messages, each of them one that fills the buffers or one that is
\* a byte longer.
MsgLens == {1024, 1025}

RECURSIVE Outs(_, _, _)
Outs(cli, first, n) ==
    IF n = 0 THEN {<<>>}
    ELSE {<<Message(cli, first, len)>> \o rest :
             len \in MsgLens, rest \in Outs(cli, first + 1, n - 1)}

ClientOuts(cli) == UNION {Outs(cli, 1, n) : n \in 0..MaxMsgs}

Scenarios ==
    {[URI |-> <<"t", "c", "p", ":", "/", "/", "1", "2", "7", ".", "0", ".", "0", ".", "1",
                ":", "0">>,
      Cli1 |-> a, Cli2 |-> b] : a \in ClientOuts(1), b \in ClientOuts(2)}

\* The scenarios in which each client has fewer than MaxMsgs messages, each
\* of them one that fills the buffers.
ShortScenarios ==
    {s \in Scenarios :
        \A out \in {s.Cli1, s.Cli2} :
            Len(out) < MaxMsgs /\ \A j \in 1..Len(out) : out[j][1].len = 1024}

InitExecute(scenarios) ==
    /\ InitRegistries
    /\ op = "none"
    /\ arg \in scenarios
    /\ ret = NoRet
    /\ events = <<>>
    /\ listeners = <<>>
    /\ conns = <<>>
    /\ conduits = <<>>
    /\ server = [accept |-> "none"]
    /\ clients = <<>>
    /\ main = [pc |-> "NewServer", wg |-> 0]
    /\ wire = <<>>

InitScenario == InitExecute(Scenarios)

\* The steps of the test itself: its calls of Listen and Dial, and the rest.
MainDial ==
    \/ \E out \in NetOuts : ExecuteNewServer(out)
    \/ \E out \in NetOuts : ExecuteNewClient(out)

MainStep ==
    \/ ServerStart
    \/ \E k \in 1..Len(clients) : ClientStart(k)
    \/ ExecuteWaited
    \/ ServerClose
    \/ ServerClosed
    \/ ExecuteChecked

AcceptStep ==
    \/ \E seen \in {server.Listener, Len(listeners)} : AcceptEnter(seen)
    \/ AcceptReturn

EchoStep(h) ==
    \/ EchoRead(h)
    \/ \E err \in {Nil, "EPIPE"} : EchoWrite(h, err)

SendStep(k) ==
    \/ ClientWrite(k)
    \/ ClientRead(k)
    \/ ClientDone(k)

NextScenario ==
    \/ MainDial
    \/ MainStep
    \/ main.pc # "NewServer" /\ AcceptStep
    \/ \E h \in 1..2 : main.pc # "NewServer" /\ h <= Len(server.echo) /\ EchoStep(h)
    \/ \E k \in 1..2 : k <= Len(clients) /\ SendStep(k)

SpecScenario == InitScenario /\ [][NextScenario]_vars

\* The scheduler: every goroutine that can take a step takes one in the
\* end.  Nothing is assumed of how long Listen and Dial take.  Checked on
\* the short scenarios.
Scheduled ==
    /\ WF_vars(MainStep)
    /\ WF_vars(main.pc # "NewServer" /\ AcceptStep)
    /\ \A h \in 1..2 : WF_vars(main.pc # "NewServer" /\ h <= Len(server.echo) /\ EchoStep(h))
    /\ \A k \in 1..2 : WF_vars(k <= Len(clients) /\ SendStep(k))

SpecScenarioFair == InitExecute(ShortScenarios) /\ [][NextScenario]_vars /\ Scheduled

----------------------------------------------------------------------------
(* Package proto: the PDU header and the extension header, and their       *)
(* encoding in four bytes.  A byte slice is a sequence of numbers 0..255;  *)
(* data[i] of the code is data[i + 1] here.                                *)

MaxBufLen == 5

\* The bitwise operators of Go on unsigned integers.
RECURSIVE BitAnd(_, _)
BitAnd(a, b) ==
    IF a = 0 \/ b = 0 THEN 0
    ELSE (a % 2) * (b % 2) + 2 * BitAnd(a \div 2, b \div 2)

RECURSIVE BitOr(_, _)
BitOr(a, b) ==
    IF a = 0 THEN b
    ELSE IF b = 0 THEN a
    ELSE (IF a % 2 = 1 \/ b % 2 = 1 THEN 1 ELSE 0) + 2 * BitOr(a \div 2, b \div 2)

\* a << n on a uint8 and on a uint16, and a >> n
ShiftLeft8(a, n) == (a * 2^n) % 256
ShiftLeft16(a, n) == (a * 2^n) % 65536
ShiftRight(a, n) == a \div 2^n

HeaderSize == 4
MaxMajor == 0
MajorMask == 240
MajorShift == 4
ReplyBit == 8
ErrorBit == 4

\* type Header struct
Header(major, reply, error, protocol, length) ==
    [Major |-> major, Reply |-> reply, Error |-> error, Protocol |-> protocol,
     Length |-> length]

\* What the two methods return: the count, the error, and the object they
\* write to as they leave it (the header for FromBytes, the slice for
\* ToBytes).
Decoded(n, err, h) == [n |-> n, err |-> err, h |-> h]
Encoded(n, err, data) == [n |-> n, err |-> err, data |-> data]

\* (*Header).FromBytes, from the version check on.
HeaderFromVersion(h, data, vers) ==
    IF vers > MaxMajor THEN Decoded(0, "ErrMaxVersion", h)
    ELSE Decoded(HeaderSize, Nil,
                 Header(vers, BitAnd(data[1], ReplyBit) # 0,
                        BitAnd(data[1], ErrorBit) # 0, data[2],
                        BitOr(ShiftLeft16(data[3], 8), data[4])))

\* A variant that reads the length low byte first.
HeaderFromBytes_LittleEndian(h, data) ==
    IF Len(data) < HeaderSize THEN Decoded(0, "ErrShortInput", h)
    ELSE IF ShiftRight(BitAnd(data[1], MajorMask), MajorShift) > MaxMajor
    THEN Decoded(0, "ErrMaxVersion", h)
    ELSE Decoded(HeaderSize, Nil,
                 Header(ShiftRight(BitAnd(data[1], MajorMask), MajorShift),
                        BitAnd(data[1], ReplyBit) # 0,
                        BitAnd(data[1], ErrorBit) # 0, data[2],
                        BitOr(data[4] * 256, data[3])))

\* (*Header).FromBytes(data)
HeaderFromBytes(h, data) ==
    IF Len(data) < HeaderSize THEN Decoded(0, "ErrShortInput", h)
    ELSE HeaderFromVersion(h, data, ShiftRight(BitAnd(data[1], MajorMask), MajorShift))

\* The first byte that ToBytes writes.
HeaderFlags(h) ==
    BitOr(BitOr(BitAnd(ShiftLeft8(h.Major, MajorShift), MajorMask),
                IF h.Reply THEN ReplyBit ELSE 0),
          IF h.Error THEN ErrorBit ELSE 0)

\* A variant that writes the header before it looks at the version.
HeaderToBytes_WriteFirst(h, data) ==
    IF Len(data) < HeaderSize THEN Encoded(0, "ErrShortOutput", data)
    ELSE IF h.Major > MaxMajor
    THEN Encoded(0, "ErrMaxVersion",
                 [data EXCEPT ![1] = HeaderFlags(h), ![2] = h.Protocol])
    ELSE Encoded(HeaderSize, Nil,
                 [data EXCEPT ![1] = HeaderFlags(h),
                              ![2] = h.Protocol,
                              ![3] = ShiftRight(BitAnd(h.Length, 65280), 8) % 256,
                              ![4] = BitAnd(h.Length, 255) % 256])

\* (*Header).ToBytes(data)
HeaderToBytes(h, data) ==
    IF h.Major > MaxMajor THEN Encoded(0, "ErrMaxVersion", data)
    ELSE IF Len(data) < HeaderSize THEN Encoded(0, "ErrShortOutput", data)
    ELSE Encoded(HeaderSize, Nil,
                 [data EXCEPT ![1] = HeaderFlags(h),
                              ![2] = h.Protocol,
                              ![3] = ShiftRight(BitAnd(h.Length, 65280), 8) % 256,
                              ![4] = BitAnd(h.Length, 255) % 256])

ExtHeaderSize == 4
IgnoreBit == 128
CloseBit == 64
HopBit == 32

\* type ExtHeader struct
ExtHeader(ignore, close, hop, protocol, length) ==
    [Ignore |-> ignore, Close |-> close, HopByHop |-> hop, Protocol |-> protocol,
     Length |-> length]

\* (*ExtHeader).FromBytes(data)
ExtHeaderFromBytes(h, data) ==
    IF Len(data) < ExtHeaderSize THEN Decoded(0, "ErrShortInput", h)
    ELSE Decoded(ExtHeaderSize, Nil,
                 ExtHeader(BitAnd(data[1], IgnoreBit) # 0,
                           BitAnd(data[1], CloseBit) # 0,
                           BitAnd(data[1], HopBit) # 0, data[2],
                           BitOr(ShiftLeft16(data[3], 8), data[4])))

\* The first byte as ToBytes leaves it: the flags set in the header are
\* or-ed into the byte that is there.
ExtHeaderFlags(h, b) ==
    BitOr(BitOr(BitOr(b, IF h.Ignore THEN IgnoreBit ELSE 0),
                IF h.Close THEN CloseBit ELSE 0),
          IF h.HopByHop THEN HopBit ELSE 0)

\* (*ExtHeader).ToBytes(data)
ExtHeaderToBytes(h, data) ==
    IF Len(data) < ExtHeaderSize THEN Encoded(0, "ErrShortOutput", data)
    ELSE Encoded(ExtHeaderSize, Nil,
                 [data EXCEPT ![1] = ExtHeaderFlags(h, data[1]),
                              ![2] = h.Protocol,
                              ![3] = ShiftRight(BitAnd(h.Length, 65280), 8) % 256,
                              ![4] = BitAnd(h.Length, 255) % 256])

\* The header specification: a header and a byte slice are given; the
\* header is encoded into the slice and a header decoded from what the
\* slice then holds, or the header is overwritten by decoding the slice as
\* it is given.
Protocols == {0, 23, 255}
Lengths == {0, 511, 65281, 65535}

Headers ==
    {Header(m, r, e, p, l) : m \in {0, 1, 16}, r \in BOOLEAN, e \in BOOLEAN,
                             p \in Protocols, l \in Lengths}

ExtHeaders ==
    {ExtHeader(i, c, x, p, l) : i \in BOOLEAN, c \in BOOLEAN, x \in BOOLEAN,
                                p \in Protocols, l \in Lengths}

ZeroHeader == Header(0, FALSE, FALSE, 0, 0)
ZeroExtHeader == ExtHeader(FALSE, FALSE, FALSE, 0, 0)

Buffers ==
    UNION {[1..n -> {0, 255}] : n \in 0..MaxBufLen}
    \cup {<<12, 23, 1, 255>>, <<28, 23, 1, 255>>, <<160, 23, 1, 255>>, <<8, 0, 255, 1, 7>>}

HeaderInputs ==
    {[type |-> "Header", h |-> h, data |-> d] : h \in Headers, d \in Buffers}
    \cup {[type |-> "ExtHeader", h |-> h, data |-> d] : h \in ExtHeaders, d \in Buffers}

InitHeader ==
    /\ InitRegistries
    /\ op = "none"
    /\ arg \in HeaderInputs
    /\ ret = NoRet
    /\ events = <<>>
    /\ listeners = <<>>
    /\ conns = <<>>
    /\ conduits = <<>>
    /\ NoScenario

\* One call: op names it, ret is what it returned and left behind.
HeaderCalled(name, r) ==
    /\ op' = name
    /\ ret' = r
    /\ UNCHANGED <<transMechs, secMechs, discMechs, arg, events, listeners, conns, conduits, scenario>>

HeaderToBytesCall ==
    /\ op = "none"
    /\ arg.type = "Header"
    /\ HeaderCalled("Header.ToBytes", HeaderToBytes(arg.h, arg.data))

HeaderFromBytesCall ==
    /\ op = "none"
    /\ arg.type = "Header"
    /\ HeaderCalled("Header.FromBytes", HeaderFromBytes(arg.h, arg.data))

\* The slice just encoded into is decoded into a new header.
HeaderBackCall ==
    /\ op = "Header.ToBytes"
    /\ ret.err = Nil
    /\ HeaderCalled("Header.Back", HeaderFromBytes(ZeroHeader, ret.data))

ExtHeaderToBytesCall ==
    /\ op = "none"
    /\ arg.type = "ExtHeader"
    /\ HeaderCalled("ExtHeader.ToBytes", ExtHeaderToBytes(arg.h, arg.data))

ExtHeaderFromBytesCall ==
    /\ op = "none"
    /\ arg.type = "ExtHeader"
    /\ HeaderCalled("ExtHeader.FromBytes", ExtHeaderFromBytes(arg.h, arg.data))

ExtHeaderBackCall ==
    /\ op = "ExtHeader.ToBytes"
    /\ ret.err = Nil
    /\ HeaderCalled("ExtHeader.Back", ExtHeaderFromBytes(ZeroExtHeader, ret.data))

NextHeader ==
    \/ HeaderToBytesCall
    \/ HeaderFromBytesCall
    \/ HeaderBackCall
    \/ ExtHeaderToBytesCall
    \/ ExtHeaderFromBytesCall
    \/ ExtHeaderBackCall

SpecHeader == InitHeader /\ [][NextHeader]_vars

----------------------------------------------------------------------------
(* Claims about Parse.                                                     *)

Parsed == op = "Parse" /\ ret.err = Nil

\* The scheme text of the raw input: what precedes its first ':'.
RawScheme(raw) == SubSeq(raw, 1, IndexAny(raw, ":"))

\* The text before the last '.' of s (s itself without '.') and the text
\* after it, stated by what they are rather than by how they are found.
AfterLastDot(s) ==
    IF ~Contains(s, ".") THEN <<>>
    ELSE CHOOSE d \in {SubSeq(s, i, Len(s)) : i \in 2..(Len(s) + 1)} :
            /\ ~Contains(d, ".")
            /\ s[Len(s) - Len(d)] = "."

BeforeLastDot(s) ==
    IF ~Contains(s, ".") THEN s
    ELSE SubSeq(s, 1, Len(s) - Len(AfterLastDot(s)) - 1)

BeforeFirstPlus(s) ==
    IF ~Contains(s, "+") THEN s
    ELSE CHOOSE t \in {SubSeq(s, 1, i) : i \in 0..(Len(s) - 1)} :
            /\ ~Contains(t, "+")
            /\ s[Len(t) + 1] = "+"

AfterFirstPlus(s) ==
    IF ~Contains(s, "+") THEN <<>>
    ELSE SubSeq(s, Len(BeforeFirstPlus(s)) + 2, Len(s))

\* C1: for every scheme the URL parser accepts, Discovery is what follows
\* the last '.' of the scheme (empty without '.'); in what precedes that
\* '.', Security is what follows the first '+' (empty without '+'), and
\* Transport is what is left.
C1_ParseDecomposition ==
    Parsed =>
        LET s == ret.uri.Scheme
            pre == BeforeLastDot(s)
        IN /\ s = RawScheme(arg)
           /\ ret.uri.Discovery = AfterLastDot(s)
           /\ ret.uri.Security = AfterFirstPlus(pre)
           /\ ret.uri.Transport = BeforeFirstPlus(pre)

\* The documented pathological shape T+S+S.D.D: the security identifier
\* keeps a '+' and a '.', the discovery identifier is the last token.
C1_Witness ==
    /\ Parsed
    /\ ret.uri.Scheme = <<"t", "+", "t", "+", "t", ".", "t", ".", "t">>
    /\ ret.uri.Transport = <<"t">>
    /\ ret.uri.Security = <<"t", "+", "t", ".", "t">>
    /\ ret.uri.Discovery = <<"t">>

\* Transport["+"Security]["."Discovery]
Rejoin(u) ==
    u.Transport
    \o (IF u.Security # <<>> THEN <<"+">> \o u.Security ELSE <<>>)
    \o (IF u.Discovery # <<>> THEN <<".">> \o u.Discovery ELSE <<>>)

\* A separator with nothing after it: the scheme ends in '.', or the first
\* '+' before the last '.' is the last character before it.
Dangling(s) ==
    \/ (Contains(s, ".") /\ AfterLastDot(s) = <<>>)
    \/ (Contains(BeforeLastDot(s), "+") /\ AfterFirstPlus(BeforeLastDot(s)) = <<>>)

\* C2 as stated: re-joining the three identifiers reproduces the Scheme of
\* every URI Parse returns.
C2_RejoinAlways == Parsed => Rejoin(ret.uri) = ret.uri.Scheme

\* C2 as amended: re-joining reproduces the Scheme exactly when no
\* separator of the scheme is dangling.
C2_RejoinUnlessDangling ==
    Parsed => (Rejoin(ret.uri) = ret.uri.Scheme <=> ~Dangling(ret.uri.Scheme))

C2_Witness ==
    /\ Parsed
    /\ ret.uri.Security # <<>>
    /\ ret.uri.Discovery # <<>>
    /\ Contains(ret.uri.Security, "+")
    /\ Rejoin(ret.uri) = ret.uri.Scheme

\* C3 as stated: Transport is the prefix of the scheme before its first
\* '+', and Security lies between the first '+' and the last '.', wherever
\* the '+' and the '.' are.
C3_PlusAnywhere ==
    Parsed =>
        LET s == ret.uri.Scheme
            p == IndexAny(s, "+")
            d == LastIndexAny(s, ".")
        IN p >= 0 =>
            /\ ret.uri.Transport = Slice(s, 0, p)
            /\ ret.uri.Security =
                  (IF d > p THEN Slice(s, p + 1, d)
                   ELSE IF d >= 0 THEN <<>> ELSE SliceFrom(s, p + 1))

\* C3 as amended: that holds when the first '+' precedes the last '.' or
\* there is no '.'; with no '+' before the last '.', Transport is all that
\* precedes the last '.' and Security is empty.
C3_PlusBeforeLastDot ==
    Parsed =>
        LET s == ret.uri.Scheme
            p == IndexAny(s, "+")
            d == LastIndexAny(s, ".")
        IN /\ (p >= 0 /\ d > p) =>
                /\ ret.uri.Transport = Slice(s, 0, p)
                /\ ret.uri.Security = Slice(s, p + 1, d)
           /\ (p >= 0 /\ d < 0) =>
                /\ ret.uri.Transport = Slice(s, 0, p)
                /\ ret.uri.Security = SliceFrom(s, p + 1)
           /\ (d >= 0 /\ (p < 0 \/ p > d)) =>
                /\ ret.uri.Transport = Slice(s, 0, d)
                /\ ret.uri.Security = <<>>
           /\ (p < 0 /\ d < 0) =>
                /\ ret.uri.Transport = s
                /\ ret.uri.Security = <<>>

\* A '+' that occurs only after the last '.'.
C3_Witness ==
    /\ Parsed
    /\ ret.uri.Scheme = <<"t", ".", "t", "+", "t">>
    /\ ret.uri.Transport = <<"t">>
    /\ ret.uri.Security = <<>>
    /\ ret.uri.Discovery = <<"t", "+", "t">>

----------------------------------------------------------------------------
(* Claims about IsCanonical, the dispatch and Canonicalize.                *)

\* The canonical form, stated from the parts of the host.
CanonicalForm(u) ==
    /\ u.Discovery = <<>>
    /\ \/ u.Host = <<>>
       \/ /\ SplitHostPort(u.Host).ok
          /\ ParseIP(SplitHostPort(u.Host).host) # NoIP
          /\ ParseUint16(SplitHostPort(u.Host).port).ok

\* Hosts that lack a port, name a host, name a service, or exceed 65535.
NeverCanonicalHosts ==
    { IP4Text,
      <<"l", "h", ":", "8", "0">>,
      IP4Text \o <<":", "w", "e", "b">>,
      IP4Text \o <<":", "6", "5", "5", "3", "6">> }

\* C4: IsCanonical answers true exactly when Discovery is empty and the
\* Host is empty or splits into a literal IP address and a port that is an
\* unsigned 16-bit decimal number; a host without port, a hostname, a
\* service-name port and a port above 65535 are never canonical.
C4_IsCanonicalIff ==
    op = "IsCanonical" =>
        /\ ret.val = CanonicalForm(arg.u)
        /\ (arg.u.Host \in NeverCanonicalHosts => ret.val = FALSE)

C4_Witness ==
    /\ op = "IsCanonical"
    /\ arg.u.Host = <<"[", ":", ":", "1", "]", ":", "8", "0">>
    /\ arg.u.Discovery = <<>>
    /\ ret.val = TRUE

\* The events of the call in flight, by kind.
Lookups(kind) == {i \in DOMAIN events : events[i].kind = kind}

MechCalls == {i \in DOMAIN events : events[i].kind \in {"mech.Dial", "mech.Listen"}}

MethodOf(o) == IF o \in {"URIDial", "Dial"} THEN "mech.Dial" ELSE "mech.Listen"

NoLookup == Lookups("lookupSecurity") = {} /\ Lookups("lookupTransport") = {}

\* C5: URI.Dial and URI.Listen on a URI that is not canonical (a non-empty
\* Discovery included) fail with ErrNotCanonical and a nil result, having
\* consulted no registry and called no mechanism.
C5_NotCanonicalFirst ==
    (op \in {"URIDial", "URIListen"} /\ ~CanonicalForm(arg.u)) =>
        /\ ret.err = "ErrNotCanonical"
        /\ ret.val = Nil
        /\ NoLookup
        /\ MechCalls = {}

C5_Witness ==
    /\ op = "URIDial"
    /\ arg.u.Discovery = SRV
    /\ arg.u.Transport = TCP
    /\ arg.u.Host = IP4Text \o <<":", "8", "0">>
    /\ LookupTransport(TCP) # Nil
    /\ ret.err = "ErrNotCanonical"

\* C6 as stated: URI.Dial and URI.Listen on any URI whose Transport is
\* empty fail with ErrUnknownTransport, without a registry lookup.
C6_EmptyTransportAlways ==
    (op \in {"URIDial", "URIListen"} /\ arg.u.Transport = <<>>) =>
        /\ ret.err = "ErrUnknownTransport"
        /\ NoLookup

\* C6: URI.Dial and URI.Listen on a URI whose Transport is empty fail
\* without a registry lookup and without a mechanism call: with
\* ErrUnknownTransport when the URI is canonical, with ErrNotCanonical
\* when it is not.
C6_EmptyTransport ==
    (op \in {"URIDial", "URIListen"} /\ arg.u.Transport = <<>>) =>
        /\ ret.err = IF CanonicalForm(arg.u) THEN "ErrUnknownTransport"
                     ELSE "ErrNotCanonical"
        /\ ret.val = Nil
        /\ NoLookup
        /\ MechCalls = {}

C6_Witness ==
    /\ op = "URIListen"
    /\ arg.u.Transport = <<>>
    /\ arg.u.Host = IP4Text \o <<":", "8", "0">>
    /\ arg.u.Discovery = <<>>
    /\ ret.err = "ErrUnknownTransport"

\* The calls that pass both checks and reach the registries.
Dispatched ==
    /\ op \in {"URIDial", "URIListen"}
    /\ CanonicalForm(arg.u)
    /\ arg.u.Transport # <<>>

\* The call was forwarded to mech, with the caller's config and URI, and
\* answered what mech answered.
ForwardedTo(mech) ==
    /\ Len(events) = 2
    /\ events[2].kind = MethodOf(op)
    /\ events[2].mech = mech
    /\ events[2].config = arg.config
    /\ events[2].uri = arg.u
    /\ ret.val = events[2].out.val
    /\ ret.err = events[2].out.err

\* C7: for a canonical URI with a Transport, URI.Dial and URI.Listen call
\* at most one mechanism: with a Security only the security registry is
\* looked up and the mechanism registered there is called with the same
\* config and URI; without one only the transport registry is looked up
\* and the transport mechanism is called; what the mechanism returns is
\* returned unchanged.
C7_OneMechanism ==
    Dispatched =>
        /\ Cardinality(MechCalls) <= 1
        /\ IF arg.u.Security # <<>>
           THEN /\ Lookups("lookupTransport") = {}
                /\ Lookups("lookupSecurity") = {1}
                /\ events[1] = EvLookupSecurity(arg.u.Security)
                /\ MapGet(secMechs, arg.u.Security) # Nil
                      => ForwardedTo(secMechs[arg.u.Security])
           ELSE /\ Lookups("lookupSecurity") = {}
                /\ Lookups("lookupTransport") = {1}
                /\ events[1] = EvLookupTransport(arg.u.Transport)
                /\ MapGet(transMechs, arg.u.Transport) # Nil
                      => ForwardedTo(transMechs[arg.u.Transport])

C7_Witness ==
    /\ op = "URIListen"
    /\ arg.u.Security = TLS
    /\ arg.u.Transport = TCP
    /\ LookupTransport(TCP) # Nil
    /\ Len(events) = 2
    /\ events[2].mech = "S1"
    /\ ret.val = "listener"

\* C8: for a canonical URI with a Transport, a Security whose lookup gives
\* nil fails with ErrUnknownSecurity, with no fallback to the transport
\* even if that is registered; an empty Security and a Transport whose
\* lookup gives nil fail with ErrUnknownTransport; both with a nil result
\* and no mechanism call.
C8_UnknownMechanism ==
    Dispatched =>
        /\ (arg.u.Security # <<>> /\ MapGet(secMechs, arg.u.Security) = Nil)
              => /\ ret.err = "ErrUnknownSecurity"
                 /\ ret.val = Nil
                 /\ MechCalls = {}
                 /\ Lookups("lookupTransport") = {}
        /\ (arg.u.Security = <<>> /\ MapGet(transMechs, arg.u.Transport) = Nil)
              => /\ ret.err = "ErrUnknownTransport"
                 /\ ret.val = Nil
                 /\ MechCalls = {}

C8_Witness ==
    /\ op = "URIDial"
    /\ arg.u.Security = TLS
    /\ arg.u.Transport = TCP
    /\ LookupSecurity(TLS) = Nil
    /\ LookupTransport(TCP) # Nil
    /\ ret.err = "ErrUnknownSecurity"
    /\ events = <<EvLookupSecurity(TLS)>>

\* Raw URIs with a hostname and with a service-name port.
RawHostname == TCP \o <<":", "/", "/", "l", "h", ":", "8", "0">>

RawServicePort == TCP \o <<":", "/", "/">> \o IP4Text \o <<":", "w", "e", "b">>

\* C9 as stated: the top-level Dial and Listen canonicalize what they
\* parsed, so that a raw URI with a hostname or a service-name port
\* reaches a mechanism when its transport is registered.
C9_DialCanonicalizes ==
    (/\ op \in {"Dial", "Listen"}
     /\ arg.raw \in {RawHostname, RawServicePort}
     /\ LookupTransport(TCP) # Nil)
        => MechCalls # {}

\* C9: the top-level Dial and Listen parse the raw URI and hand the parsed
\* URI, as it is, to URI.Dial or URI.Listen: a parse error is returned with
\* a nil result; a parsed URI that is not canonical is refused with
\* ErrNotCanonical and nothing is resolved; a mechanism that is called gets
\* the parsed URI and the caller's config, through the method of the entry
\* point.  A hostname is refused as not canonical, a service-name port as
\* a parse error.
C9_ParseThenDispatch ==
    op \in {"Dial", "Listen"} =>
        /\ Parse(arg.raw).err # Nil
              => ret = [val |-> Nil, err |-> "ParseError"] /\ events = <<>>
        /\ (Parse(arg.raw).err = Nil /\ ~CanonicalForm(Parse(arg.raw).uri))
              => ret = [val |-> Nil, err |-> "ErrNotCanonical"] /\ events = <<>>
        /\ \A i \in DOMAIN events :
              events[i].kind \in {"lookupSecurity", "lookupTransport", MethodOf(op)}
        /\ \A i \in MechCalls :
              /\ events[i].uri = Parse(arg.raw).uri
              /\ events[i].config = arg.config
              /\ ret.val = events[i].out.val
              /\ ret.err = events[i].out.err
        /\ arg.raw = RawHostname => ret.err = "ErrNotCanonical"
        /\ arg.raw = RawServicePort => ret.err = "ParseError"

C9_Witness ==
    /\ op = "Dial"
    /\ arg.raw = RawHostname
    /\ LookupTransport(TCP) # Nil
    /\ ret.err = "ErrNotCanonical"
    /\ events = <<>>

\* C10: Canonicalize on a URI with empty Discovery and empty Host returns
\* the one-element sequence holding the receiver itself, not a copy, and
\* no error, and performs no lookup.
C10_HostlessIsSelf ==
    (op = "Canonicalize" /\ arg.u.Discovery = <<>> /\ arg.u.Host = <<>>) =>
        /\ ret.err = Nil
        /\ ret.uris = <<Self(arg.u)>>
        /\ events = <<>>

C10_Witness ==
    /\ op = "Canonicalize"
    /\ arg.u.Discovery = <<>>
    /\ arg.u.Host = <<>>
    /\ arg.u.Transport = TCP
    /\ ret.uris = <<Self(arg.u)>>

\* C11: Canonicalize on a URI whose Discovery is no key of the discovery
\* registry fails with ErrUnknownDiscovery and returns no URIs, whatever
\* the host and port, and asks neither DNS nor the service database (nor
\* any discovery mechanism).
C11_UnknownDiscovery ==
    (/\ op = "Canonicalize"
     /\ arg.u.Discovery # <<>>
     /\ arg.u.Discovery \notin DOMAIN discMechs)
        => /\ ret.err = "ErrUnknownDiscovery"
           /\ ret.uris = <<>>
           /\ Lookups("lookupIP") = {}
           /\ Lookups("lookupPort") = {}
           /\ Lookups("Discover") = {}

C11_Witness ==
    /\ op = "Canonicalize"
    /\ arg.u.Discovery = SRV
    /\ SRV \notin DOMAIN discMechs
    /\ arg.u.Host = <<"l", "h", ":", "w", "e", "b">>
    /\ ret.err = "ErrUnknownDiscovery"

\* C12: when Discovery is non-empty and a mechanism is registered for it,
\* Canonicalize calls that mechanism exactly once, with the receiver, and
\* returns its URI list and its error as they are, both even when an error
\* comes with a non-empty list; it resolves no host and no port itself.
C12_DiscoveryVerbatim ==
    (/\ op = "Canonicalize"
     /\ arg.u.Discovery # <<>>
     /\ MapGet(discMechs, arg.u.Discovery) # Nil)
        => /\ Lookups("Discover") = {2}
           /\ Len(events) = 2
           /\ events[2].mech = discMechs[arg.u.Discovery]
           /\ events[2].uri = arg.u
           /\ ret.uris = events[2].out.uris
           /\ ret.err = events[2].out.err
           /\ Lookups("lookupIP") = {}
           /\ Lookups("lookupPort") = {}

C12_Witness ==
    /\ op = "Canonicalize"
    /\ arg.u.Discovery = SRV
    /\ MapGet(discMechs, SRV) = "D1"
    /\ arg.u.Host = <<"l", "h", ":", "w", "e", "b">>
    /\ ret.err = "DiscoverError"
    /\ Len(ret.uris) = 1

\* The addresses and the port a canonicalization in flight resolved to:
\* the literal of the host or what the DNS lookup answered, the number of
\* the host or what the service lookup answered.
ResolvedIPs ==
    IF ParseIP(SplitHostPort(arg.u.Host).host) # NoIP
    THEN <<ParseIP(SplitHostPort(arg.u.Host).host)>>
    ELSE events[1].out.ips

ResolvedPort ==
    IF ParseUint16(SplitHostPort(arg.u.Host).port).ok
    THEN SplitHostPort(arg.u.Host).port
    ELSE FormatUint(events[Len(events)].out.port)

\* C13: for a URI with empty Discovery and a host:port Host, a successful
\* Canonicalize returns one URI per resolved address, in the resolver's
\* order (none for no address); each has the Host address:port with the
\* one resolved port (the port is looked up at most once), and Scheme,
\* Opaque, User, Path, query, Fragment, Transport, Security and Discovery
\* of the receiver.
C13_OnePerAddress ==
    (/\ op = "Canonicalize"
     /\ arg.u.Discovery = <<>>
     /\ arg.u.Host # <<>>
     /\ ret.err = Nil)
        => /\ Cardinality(Lookups("lookupIP")) <= 1
           /\ Cardinality(Lookups("lookupPort")) <= 1
           /\ Len(ret.uris) = Len(ResolvedIPs)
           /\ \A k \in 1..Len(ret.uris) :
                /\ ret.uris[k].uri.Host
                      = JoinHostPort(IPString(ResolvedIPs[k]), ResolvedPort)
                /\ ret.uris[k].uri.Scheme = arg.u.Scheme
                /\ ret.uris[k].uri.Opaque = arg.u.Opaque
                /\ ret.uris[k].uri.User = arg.u.User
                /\ ret.uris[k].uri.Path = arg.u.Path
                /\ ret.uris[k].uri.RawQuery = arg.u.RawQuery
                /\ ret.uris[k].uri.ForceQuery = arg.u.ForceQuery
                /\ ret.uris[k].uri.Fragment = arg.u.Fragment
                /\ ret.uris[k].uri.Transport = arg.u.Transport
                /\ ret.uris[k].uri.Security = arg.u.Security
                /\ ret.uris[k].uri.Discovery = arg.u.Discovery

C13_Witness ==
    /\ op = "Canonicalize"
    /\ arg.u \in FullURIs
    /\ arg.u.Host = <<"l", "h", ":", "w", "e", "b">>
    /\ ret.err = Nil
    /\ Len(ret.uris) = 2
    /\ ret.uris[1].uri.Host = IP4Text \o <<":", "8", "0", "8", "0">>
    /\ ret.uris[2].uri.Host
          = <<"[", ":", ":", "1", "]", ":", "8", "0", "8", "0">>
    /\ ret.uris[2].uri.Fragment = <<"f">>

\* Every name a caller registers or looks up.
AllNames == TransportNames \cup SecurityNames \cup DiscoveryNames

\* What a step does to the registries: the registration of a name makes
\* the lookup of that name give the value just registered and leaves every
\* other lookup, in the same registry and in the other two, as it was; a
\* name becomes a key only by its registration; a name that is no key
\* looks up as nil.
RegistryStep ==
    /\ \A n \in TransportNames, m \in TransportMechs \cup {Nil} :
          RegisterTransport(n, m) =>
             /\ LookupTransport(n)' = m
             /\ \A k \in AllNames \ {n} : LookupTransport(k)' = LookupTransport(k)
             /\ \A k \in AllNames : /\ LookupSecurity(k)' = LookupSecurity(k)
                                    /\ LookupDiscovery(k)' = LookupDiscovery(k)
    /\ \A n \in SecurityNames, m \in SecurityMechs \cup {Nil} :
          RegisterSecurity(n, m) =>
             /\ LookupSecurity(n)' = m
             /\ \A k \in AllNames \ {n} : LookupSecurity(k)' = LookupSecurity(k)
             /\ \A k \in AllNames : /\ LookupTransport(k)' = LookupTransport(k)
                                    /\ LookupDiscovery(k)' = LookupDiscovery(k)
    /\ \A n \in DiscoveryNames, m \in DiscoveryMechs \cup {Nil} :
          RegisterDiscovery(n, m) =>
             /\ LookupDiscovery(n)' = m
             /\ \A k \in AllNames \ {n} : LookupDiscovery(k)' = LookupDiscovery(k)
             /\ \A k \in AllNames : /\ LookupTransport(k)' = LookupTransport(k)
                                    /\ LookupSecurity(k)' = LookupSecurity(k)
    /\ \A k \in AllNames :
          /\ (k \notin DOMAIN transMechs /\ k \in DOMAIN transMechs')
                => \E m \in TransportMechs \cup {Nil} : RegisterTransport(k, m)
          /\ (k \notin DOMAIN secMechs /\ k \in DOMAIN secMechs')
                => \E m \in SecurityMechs \cup {Nil} : RegisterSecurity(k, m)
          /\ (k \notin DOMAIN discMechs /\ k \in DOMAIN discMechs')
                => \E m \in DiscoveryMechs \cup {Nil} : RegisterDiscovery(k, m)
          /\ k \notin DOMAIN transMechs => LookupTransport(k) = Nil
          /\ k \notin DOMAIN secMechs => LookupSecurity(k) = Nil
          /\ k \notin DOMAIN discMechs => LookupDiscovery(k) = Nil

\* C14: in each of the three registries a registration inserts or
\* replaces, so that the lookup of the name gives the value registered
\* last; the lookup of a name never registered gives nil; and a
\* registration in one registry changes no lookup in the other two.
C14_Registries == [][RegistryStep]_vars

C14_Witness ==
    /\ LookupTransport(TCP) = "M1"
    /\ UDP \notin DOMAIN transMechs
    /\ LookupTransport(UDP) = Nil
    /\ LookupSecurity(TLS) = "S1"
    /\ LookupTransport(TLS) = Nil
    /\ LookupDiscovery(SRV) = "D1"

----------------------------------------------------------------------------
(* Claims about the options and the filters.                               *)

Building == op \in {"mkDialer", "mkListenConfig"}

FilterKind == IF op = "mkDialer" THEN "DialFilter" ELSE "ListenFilter"

ApplyKind == IF op = "mkDialer" THEN "DialApply" ELSE "ListenApply"

\* The positions of the options of a type, and the last of some positions.
Writers(type) == {i \in DOMAIN arg.opts : arg.opts[i].type = type}

Last(S) == CHOOSE i \in S : \A j \in S : j <= i

\* C15: without a filter, mkDialer and mkListenConfig start from the zero
\* builder and apply every option exactly once, in the order of the slice;
\* they do not fail; a field several options write holds what the last of
\* them wrote, a field none writes is zero.
C15_ApplyInOrder ==
    (Building /\ arg.filt = NoFilter) =>
        /\ ret.err = Nil
        /\ Len(events) = Len(arg.opts)
        /\ \A i \in DOMAIN events : events[i] = EvApply(ApplyKind, i, arg.opts[i])
        /\ ret.val.KeepAlive
              = IF Writers("KeepAlive") = {} THEN 0
                ELSE arg.opts[Last(Writers("KeepAlive"))].ka
        /\ ret.val.Control
              = IF Writers("control") = {} THEN Nil
                ELSE arg.opts[Last(Writers("control"))].Control
        /\ op = "mkDialer" => ret.val.LocalAddr = Nil

C15_Witness ==
    /\ op = "mkDialer"
    /\ arg.filt = NoFilter
    /\ arg.opts = <<KeepAlive(1), control("c2"), KeepAlive(2)>>
    /\ ret.val = [KeepAlive |-> 2, Control |-> "c2", LocalAddr |-> Nil]

\* The first option a mock filter refuses, 0 if it refuses none.
Refused == {i \in DOMAIN arg.opts : arg.opts[i] \in arg.filt.rejects}

FirstRefused == IF Refused = {} THEN 0 ELSE CHOOSE i \in Refused : \A j \in Refused : i <= j

\* C16: with a filter, the filter is heard on each option right before that
\* option is applied and before the next option is filtered; when it
\* refuses an option the builder returned is nil and the error is the
\* filter's, that option is not applied, and the options after it are
\* neither filtered nor applied.
C16_FilterBeforeApply ==
    (Building /\ arg.filt # NoFilter) =>
        /\ \A k \in DOMAIN events :
              IF k % 2 = 1
              THEN /\ events[k].kind = FilterKind
                   /\ events[k].index = (k + 1) \div 2
                   /\ events[k].opt = arg.opts[(k + 1) \div 2]
              ELSE /\ events[k].kind = ApplyKind
                   /\ events[k].index = k \div 2
                   /\ events[k - 1].out.err = Nil
                   /\ events[k].opt = events[k - 1].out.opt
        /\ IF Len(events) % 2 = 1
           THEN /\ ret.val = Nil
                /\ ret.err # Nil
                /\ ret.err = events[Len(events)].out.err
           ELSE /\ ret.err = Nil
                /\ Len(events) = 2 * Len(arg.opts)
        /\ arg.filt.type = "mock" =>
              IF FirstRefused = 0 THEN ret.err = Nil
              ELSE /\ ret.err = "FilterError"
                   /\ Len(events) = 2 * FirstRefused - 1

C16_Witness ==
    /\ op = "mkListenConfig"
    /\ arg.filt = MockFilter({control("c1")})
    /\ arg.opts = <<KeepAlive(1), control("c1"), KeepAlive(2)>>
    /\ ret.val = Nil
    /\ ret.err = "FilterError"
    /\ Len(events) = 3

\* C17: the TCP dial filter passes every option that is no LocalAddrOption
\* as it is.  A LocalAddrOption it refuses with ErrNotCanonical if the
\* option's URI is not canonical, else with ErrUnknownTransport if the
\* Transport is not tcp, else with the resolver's error if the resolver
\* fails; a refused option keeps its Addr unset.  Otherwise the resolved
\* address is stored in the option's Addr and the apply step that follows
\* makes it the dialer's local address.
C17_TCPFilter ==
    (op = "mkDialer" /\ arg.filt = tcpFilter) =>
        /\ \A k \in Lookups("DialFilter") :
              IF events[k].opt.type # "LocalAddr"
              THEN /\ events[k].out.err = Nil
                   /\ events[k].out.opt = events[k].opt
              ELSE /\ events[k].out.err
                         = IF ~CanonicalForm(events[k].opt.URI) THEN "ErrNotCanonical"
                           ELSE IF events[k].opt.URI.Transport # TCP
                           THEN "ErrUnknownTransport"
                           ELSE arg.res.err
                   /\ events[k].out.opt.URI = events[k].opt.URI
                   /\ IF events[k].out.err # Nil
                      THEN /\ events[k].out.opt.Addr = Nil
                           /\ ret.opts[events[k].index].Addr = Nil
                      ELSE /\ events[k].out.opt.Addr = arg.res.addr
                           /\ ret.opts[events[k].index].Addr = arg.res.addr
                           /\ events[k + 1] = EvApply("DialApply", events[k].index,
                                                      events[k].out.opt)
        /\ (ret.err = Nil /\ Writers("LocalAddr") # {})
              => ret.val.LocalAddr = arg.res.addr

C17_Witness ==
    /\ op = "mkDialer"
    /\ arg.filt = tcpFilter
    /\ arg.opts = <<KeepAlive(1),
                    LocalAddr(URI(TCP, IP4Text \o <<":", "8", "0">>, <<>>, TCP, <<>>, <<>>))>>
    /\ ret.err = Nil
    /\ ret.val.LocalAddr = "TCPAddr"
    /\ ret.opts[2].Addr = "TCPAddr"

----------------------------------------------------------------------------
(* Claims about the TCP mechanism.                                         *)

\* The conduits returned so far by Dial and by Accept.
Returned(from) == {i \in 1..Len(conduits) : conduits[i].from = from}

\* The conduit returned for one end of connection c (there is one at most).
ConduitOf(link) ==
    CHOOSE i \in 1..Len(conduits) : conduits[i].val.Link = link

\* The errors of the net package in this model.
NativeErrors == {"AddrError", "NetError", "ECONNREFUSED", "EADDRINUSE", "ErrClosed"}

\* u is a tcp URI whose host is the text of addr.
URIOfAddr(u, addr) ==
    /\ u.Scheme = TCP
    /\ u.Transport = TCP
    /\ u.Security = <<>>
    /\ u.Discovery = <<>>
    /\ u.Path = <<>>
    /\ ResolveTCPAddr(u.Host) = [ok |-> TRUE, addr |-> addr]

\* C18: every conduit returned by Dial is in state Active and every conduit
\* returned by Accept is in state Passive; none has its Error set, and the
\* security fields and the protocol and round-trip fields are all zero.
C18_ActiveOrPassive ==
    \A i \in 1..Len(conduits) :
        /\ conduits[i].from = "Dial" => conduits[i].val.State = "Active"
        /\ conduits[i].from = "Accept" => conduits[i].val.State = "Passive"
        /\ conduits[i].from \in {"Dial", "Accept"}
        /\ conduits[i].val.Error = Nil
        /\ conduits[i].val.Principal = <<>>
        /\ conduits[i].val.Strength = 0
        /\ ~conduits[i].val.Confidential
        /\ ~conduits[i].val.Integrity
        /\ conduits[i].val.MinProto = 0
        /\ conduits[i].val.MaxProto = 0
        /\ conduits[i].val.Proto = 0
        /\ conduits[i].val.RTT = 0
        /\ conduits[i].val.Deviation = 0

C18_Witness ==
    /\ Returned("Dial") # {}
    /\ Returned("Accept") # {}
    /\ op = "Accept"
    /\ ret.err = Nil
    /\ ret.val.State = "Passive"

\* C19: a Dial that succeeds returns a conduit whose RemoteURI is the URI
\* object it was given, whose LocalURI is the tcp URI of the local address
\* of the new connection and whose Link is that connection; an Accept that
\* succeeds returns a conduit whose LocalURI is the listener's URI (so all
\* conduits accepted on a listener share it), whose RemoteURI is the tcp
\* URI of the connection's remote address and whose Link is the accepted
\* connection; a Dial or Accept that fails returns the error of the net
\* package as it is, and no conduit.
C19_DialAcceptConduits ==
    /\ (op = "Dial" /\ ret.err = Nil) =>
           /\ ret.val = conduits[Len(conduits)].val
           /\ ret.val.RemoteURI = Self(arg.u)
           /\ ~ret.val.LocalURI.self
           /\ URIOfAddr(ret.val.LocalURI.uri, conns[Len(conns)].local)
           /\ ret.val.Link = DialedConn(Len(conns))
    /\ (op = "Accept" /\ ret.err = Nil) =>
           /\ ret.val = conduits[Len(conduits)].val
           /\ ret.val.LocalURI = listeners[arg.l].URI
           /\ ret.val.Link.end = "accepted"
           /\ conns[ret.val.Link.conn].listener = arg.l
           /\ conns[ret.val.Link.conn].accepted
           /\ ~ret.val.RemoteURI.self
           /\ URIOfAddr(ret.val.RemoteURI.uri, conns[ret.val.Link.conn].local)
    /\ \A i \in Returned("Accept") :
           conduits[i].val.LocalURI = listeners[conns[conduits[i].val.Link.conn].listener].URI
    /\ (op \in {"Dial", "Accept"} /\ ret.err # Nil) =>
           /\ ret.val = Nil
           /\ ret.err \in NativeErrors

C19_Witness ==
    /\ op = "Accept"
    /\ ret.err = Nil
    /\ \E i, j \in Returned("Accept") :
           /\ i # j
           /\ conns[conduits[i].val.Link.conn].listener = arg.l
           /\ conns[conduits[j].val.Link.conn].listener = arg.l
    /\ Cardinality(Returned("Dial")) = 2

\* C20: a listener opened on port 0 reports, as its URI and from Addr(), the
\* address it was actually bound to; and for every connection that was
\* dialed and accepted, the text of the client conduit's RemoteURI is the
\* text of the listener's URI and of the accepted conduit's LocalURI, and
\* the text of the accepted conduit's RemoteURI is the text of the client
\* conduit's LocalURI.
C20_EndToEnd ==
    /\ (op = "Listen" /\ ret.err = Nil) =>
           /\ URIOfAddr(ret.val.URI.uri, ret.val.L.addr)
           /\ ret.val.L.addr.Port # 0
           /\ ret.val.L.addr.IP = ResolveTCPAddr(arg.u.Host).addr.IP
    /\ op = "Addr" => URIOfAddr(ret.val.uri, listeners[arg.l].L.addr)
    /\ \A c \in 1..Len(conns) : conns[c].accepted =>
           LET active == conduits[ConduitOf(DialedConn(c))].val
               passive == conduits[ConduitOf(AcceptedConn(c))].val
               reported == URLString(TCPListenerAddr(listeners[conns[c].listener]).uri)
           IN  /\ URLString(active.RemoteURI.uri) = reported
               /\ URLString(passive.LocalURI.uri) = reported
               /\ URLString(passive.RemoteURI.uri) = URLString(active.LocalURI.uri)

C20_Witness ==
    /\ Len(listeners) = 1
    /\ ResolveTCPAddr(listeners[1].URI.uri.Host).addr.Port \in EphemeralPorts
    /\ Len(conns) = 2
    /\ \A c \in 1..2 : conns[c].accepted
    /\ op = "Addr"

----------------------------------------------------------------------------
(* Further claims about Canonicalize and about the registries.             *)

\* C26: Canonicalize on a URI with empty Discovery and a Host returns no
\* URI when it fails, and its error is the error of the step that failed,
\* as it is.  The steps come in a fixed order: a Host that does not split
\* into host and port fails first, before any lookup; a failed DNS lookup
\* of a host that is no literal address fails next, and the service is
\* then never looked up; a failed lookup of the service, asked with the
\* URI's Transport as the network, fails last.  A literal address is never
\* looked up in DNS; a port that is a 16-bit decimal number is never looked
\* up as a service.
C26_FailureOrder ==
    (op = "Canonicalize" /\ arg.u.Discovery = <<>> /\ arg.u.Host # <<>>) =>
        LET hp == SplitHostPort(arg.u.Host)
        IN  /\ ret.err # Nil => ret.uris = <<>>
            /\ ~hp.ok => (ret.err = "AddrError" /\ events = <<>>)
            /\ hp.ok =>
                  /\ ParseIP(hp.host) # NoIP => Lookups("lookupIP") = {}
                  /\ ParseIP(hp.host) = NoIP =>
                        /\ Lookups("lookupIP") = {1}
                        /\ events[1].host = hp.host
                  /\ ParseUint16(hp.port).ok => Lookups("lookupPort") = {}
                  /\ \A k \in Lookups("lookupIP") :
                        events[k].out.err # Nil =>
                            /\ ret.err = events[k].out.err
                            /\ Lookups("lookupPort") = {}
                  /\ \A k \in Lookups("lookupPort") :
                        /\ k = Len(events)
                        /\ events[k].network = arg.u.Transport
                        /\ events[k].service = hp.port
                        /\ ret.err = events[k].out.err
                  /\ ret.err # Nil =>
                        /\ events # <<>>
                        /\ events[Len(events)].out.err = ret.err

C26_Witness ==
    /\ op = "Canonicalize"
    /\ arg.u.Discovery = <<>>
    /\ arg.u.Host = <<"l", "h", ":", "w", "e", "b">>
    /\ Len(events) = 1
    /\ events[1].kind = "lookupIP"
    /\ ret.err = "DNSError"
    /\ ret.uris = <<>>

\* The call in flight is a successful Canonicalize of a URI without
\* Discovery; and one of a URI that is canonical and has a Host.
CanonicalizedAddress ==
    op = "Canonicalize" /\ arg.u.Discovery = <<>> /\ ret.err = Nil

CanonicalizedCanonical ==
    CanonicalizedAddress /\ arg.u.Host # <<>> /\ CanonicalForm(arg.u)

\* The Host of u with its address in the text form IP.String gives.
NormalHost(u) ==
    JoinHostPort(IPString(ParseIP(SplitHostPort(u.Host).host)),
                 SplitHostPort(u.Host).port)

\* C27 as stated: the one URI that Canonicalize returns for a canonical URI
\* with a Host is equal to that URI.
C27_EqualsInput ==
    CanonicalizedCanonical => ret.uris[1].uri = arg.u

\* C27: every URI that a successful Canonicalize returns for a URI with
\* empty Discovery is canonical.  For a URI that is canonical and has a
\* Host, it returns exactly one URI and asks neither DNS nor the service
\* database; that URI is the input with the address of its Host written in
\* the standard text form and with an empty RawFragment, so it is equal to
\* the input when the input has these already, and canonicalizing it again
\* gives an equal URI.
C27_ClosedUnderIsCanonical ==
    /\ CanonicalizedAddress =>
          \A k \in 1..Len(ret.uris) : IsCanonical(ret.uris[k].uri)
    /\ CanonicalizedCanonical =>
          /\ Len(ret.uris) = 1
          /\ events = <<>>
          /\ ret.uris[1].uri
                = [arg.u EXCEPT !.Host = NormalHost(arg.u), !.RawFragment = <<>>]
          /\ \A dns \in LookupIPOuts, svc \in LookupPortOuts :
                Canonicalize(ret.uris[1].uri, [uris |-> <<>>, err |-> Nil], dns, svc)
                    = Canonicalized(<<New(ret.uris[1].uri)>>, <<>>)

C27_Witness ==
    /\ CanonicalizedCanonical
    /\ arg.u.Host = <<"[", "0", ":", "0", ":", "0", ":", "0", ":", "0", ":", "0", ":", "0",
                     ":", "1", "]", ":", "8", "0">>
    /\ ret.uris[1].uri.Host = <<"[", ":", ":", "1", "]", ":", "8", "0">>

\* The receiver of the call in flight as the others saw it: the URI handed
\* to a mechanism or to a discovery mechanism, and the receiver returned by
\* Canonicalize, are the receiver with the fields it was called with.
ReceiverKept ==
    /\ op \in {"URIDial", "URIListen"} =>
          \A k \in MechCalls : events[k].uri = arg.u
    /\ op = "Canonicalize" =>
          /\ \A k \in Lookups("Discover") : events[k].uri = arg.u
          /\ \A k \in 1..Len(ret.uris) :
                IF ret.uris[k].self THEN ret.uris[k].uri = arg.u
                ELSE arg.u.Discovery # <<>> \/ arg.u.Host # <<>>
    /\ op = "IsCanonical" => ret.val = CanonicalForm(arg.u)

\* A step that changes a registry is a registration in that registry.
OnlyRegisterWrites ==
    /\ transMechs' # transMechs =>
          \E n \in TransportNames, m \in TransportMechs \cup {Nil} : RegisterTransport(n, m)
    /\ secMechs' # secMechs =>
          \E n \in SecurityNames, m \in SecurityMechs \cup {Nil} : RegisterSecurity(n, m)
    /\ discMechs' # discMechs =>
          \E n \in DiscoveryNames, m \in DiscoveryMechs \cup {Nil} : RegisterDiscovery(n, m)
    /\ op' \in {"IsCanonical", "Canonicalize", "URIDial", "URIListen", "Dial", "Listen"} =>
          UNCHANGED <<transMechs, secMechs, discMechs>>

\* C30: IsCanonical, Canonicalize, URI.Dial and URI.Listen leave the fields
\* of their receiver as they were (what Canonicalize returns besides the
\* receiver itself are new URIs); and no step but a registration adds,
\* removes or replaces an entry of a registry: the lookups, Canonicalize,
\* Dial and Listen leave the three registries as they were.
C30_ReadOnly == []ReceiverKept /\ [][OnlyRegisterWrites]_vars

C30_Witness ==
    /\ op = "URIListen"
    /\ MechCalls # {}
    /\ TLS \in DOMAIN secMechs
    /\ SRV \in DOMAIN discMechs
    /\ UDP \notin DOMAIN transMechs

----------------------------------------------------------------------------
(* Further claims about the TCP mechanism.                                 *)

\* The value the last KeepAlive option of opts holds, 0 without one.
LastKeepAlive(opts) ==
    IF \E i \in 1..Len(opts) : opts[i].type = "KeepAlive"
    THEN opts[CHOOSE i \in 1..Len(opts) :
                 /\ opts[i].type = "KeepAlive"
                 /\ \A j \in (i + 1)..Len(opts) : opts[j].type # "KeepAlive"].ka
    ELSE 0

\* C28: whatever options the caller of TCP Listen gives, a Control option
\* of its own included, the listen configuration used has the address-reuse
\* hook as its Control and the KeepAlive of the caller's last KeepAlive
\* option; no option is refused, since there is no filter; and the URI of
\* the listener returned is the tcp URI of the address bound, not the URI
\* asked for.
C28_ReuseAddrLast ==
    op = "Listen" =>
        /\ ret.err \in {Nil, "AddrError", "NetError", "EADDRINUSE"}
        /\ ret.err = Nil =>
              /\ ret.val.L.lc.Control = "tcpReuseAddr"
              /\ ret.val.L.lc.KeepAlive = LastKeepAlive(arg.opts)
              /\ URIOfAddr(ret.val.URI.uri, ret.val.L.addr)
              /\ ~ret.val.URI.self
              /\ ret.val.L.addr.Port # 0

C28_Witness ==
    /\ op = "Listen"
    /\ ret.err = Nil
    /\ arg.opts = <<KeepAlive(2), control("c1"), KeepAlive(1)>>
    /\ ret.val.L.lc = [KeepAlive |-> 1, Control |-> "tcpReuseAddr"]
    /\ ret.val.URI.uri.Host # arg.u.Host

----------------------------------------------------------------------------
(* Claims about the header encoding.                                       *)

\* C23: a Header whose Major does not exceed MaxMajor, encoded by ToBytes
\* into a slice of at least four bytes and decoded by FromBytes from that
\* slice, comes back field for field; both calls succeed and report four
\* bytes, and the Length lies in bytes 2 and 3 high byte first.
C23_HeaderRoundTrip ==
    /\ (op = "Header.ToBytes" /\ arg.h.Major <= MaxMajor /\ Len(arg.data) >= 4) =>
          /\ ret.err = Nil
          /\ ret.n = 4
          /\ ret.data[3] = arg.h.Length \div 256
          /\ ret.data[4] = arg.h.Length % 256
    /\ op = "Header.Back" =>
          /\ arg.h.Major <= MaxMajor
          /\ Len(arg.data) >= 4
          /\ ret.err = Nil
          /\ ret.n = 4
          /\ ret.h = arg.h

C23_Witness ==
    /\ op = "Header.Back"
    /\ arg.h = Header(0, TRUE, FALSE, 23, 511)
    /\ arg.data = <<255, 255, 255, 255, 255>>
    /\ ret.h = arg.h

\* The version nibble of a slice that has a first byte.
VersionNibble(data) == data[1] \div 16

\* What C24 says of every failure and of a successful ToBytes: a failure
\* reports no bytes and leaves the header (FromBytes) or the slice
\* (ToBytes) as it was, and a successful ToBytes keeps the slice's length
\* and every byte after the fourth.
C24_Frame ==
    /\ (op = "Header.FromBytes" /\ ret.err # Nil) => ret.n = 0 /\ ret.h = arg.h
    /\ (op = "Header.ToBytes" /\ ret.err # Nil) => ret.n = 0 /\ ret.data = arg.data
    /\ (op = "Header.ToBytes" /\ ret.err = Nil) =>
          /\ Len(ret.data) = Len(arg.data)
          /\ \A i \in 5..Len(arg.data) : ret.data[i] = arg.data[i]

\* C24 as stated: FromBytes fails with ErrShortInput on fewer than four bytes
\* and with ErrMaxVersion when the version nibble exceeds 0, ToBytes fails
\* with ErrShortOutput on a slice shorter than four bytes and with
\* ErrMaxVersion when Major exceeds 0, each whatever the other condition;
\* and the frame of C24_Frame.
C24_EachError ==
    /\ op = "Header.FromBytes" =>
          /\ Len(arg.data) < 4 => ret.err = "ErrShortInput"
          /\ (Len(arg.data) >= 1 /\ VersionNibble(arg.data) > 0) => ret.err = "ErrMaxVersion"
    /\ op = "Header.ToBytes" =>
          /\ Len(arg.data) < 4 => ret.err = "ErrShortOutput"
          /\ arg.h.Major > 0 => ret.err = "ErrMaxVersion"
    /\ C24_Frame

\* C24, amended: FromBytes fails with ErrShortInput on fewer than four bytes
\* and, on four bytes or more, with ErrMaxVersion when the version nibble
\* exceeds 0; ToBytes fails with ErrMaxVersion when Major exceeds 0 and,
\* when it does not, with ErrShortOutput on a slice shorter than four bytes.
\* Every failure reports no bytes and leaves the target as it was, and a
\* successful ToBytes writes the first four bytes only.
C24_ErrorsInOrder ==
    /\ op = "Header.FromBytes" =>
          /\ Len(arg.data) < 4 => ret.err = "ErrShortInput"
          /\ (Len(arg.data) >= 4 /\ VersionNibble(arg.data) > 0) => ret.err = "ErrMaxVersion"
    /\ op = "Header.ToBytes" =>
          /\ arg.h.Major > 0 => ret.err = "ErrMaxVersion"
          /\ (arg.h.Major <= 0 /\ Len(arg.data) < 4) => ret.err = "ErrShortOutput"
    /\ C24_Frame

C24_Witness ==
    /\ op = "Header.ToBytes"
    /\ arg.h.Major = 1
    /\ Len(arg.data) = 3
    /\ ret = Encoded(0, "ErrMaxVersion", arg.data)

\* C25: an ExtHeader encoded by ToBytes into a slice of at least four bytes,
\* whatever the slice held, and decoded by FromBytes from that slice comes
\* back with the Ignore, Close, HopByHop, Protocol and Length it had.
C25_ExtHeaderRoundTrip ==
    op = "ExtHeader.Back" => ret.err = Nil /\ ret.h = arg.h

----------------------------------------------------------------------------
(* Claims about closing a conduit.                                         *)

\* No two conduits that Dial and Accept returned have the same Link.
NoSharedLink ==
    \A i, j \in 1..Len(conduits) :
        i # j => conduits[i].val.Link # conduits[j].val.Link

\* The number of calls a link has seen of its Close.
RECURSIVE LinkCloses(_, _)
LinkCloses(link, evs) ==
    IF evs = <<>> THEN 0
    ELSE (IF Head(evs) = LinkClose(link) THEN 1 ELSE 0) + LinkCloses(link, Tail(evs))

\* C22 as stated: no two conduits share a Link, and the Link of a conduit
\* that Close was called on, however often, has been closed exactly once.
C22_ClosedOnce ==
    /\ NoSharedLink
    /\ \A i \in 1..Len(conduits) :
          LinkCloses(conduits[i].val.Link, events) <= 1

\* Every call of Close on a conduit calls Close on the conduit's Link, once,
\* and nothing else calls it.
EachCloseClosesLink ==
    IF op' = "Conduit.Close"
    THEN events' = Append(events, LinkClose(arg'.c.Link))
    ELSE events' = events

\* C22, amended: no two conduits that Dial and Accept returned share a Link,
\* and each call of Close on a conduit closes the conduit's Link exactly
\* once, so that n calls close it n times.
C22_EachCloseOnce == []NoSharedLink /\ [][EachCloseClosesLink]_vars

C22_Witness ==
    /\ Len(conduits) >= 2
    /\ op = "Conduit.Close"
    /\ arg.c = conduits[2].val
    /\ conduits[2].from = "Accept"
    /\ events = <<LinkClose(conduits[1].val.Link), LinkClose(conduits[2].val.Link)>>

----------------------------------------------------------------------------
(* Claims about the echo server and its clients.                           *)

\* The listener of the server has been closed.
ListenerClosed == Len(listeners) > 0 /\ listeners[1].L.closed

\* The accept loop has left its loop on an error of Accept.
AcceptLoopExited == server.accept = "done" /\ server.AcceptErr # Nil

\* C21: once the listener is closed, an Accept pending on it returns an
\* error, an Accept started later returns an error, and so the accept loop,
\* which leaves on the first error of Accept, ends.
C21_CloseUnblocks ==
    /\ (ListenerClosed /\ server.accept = "wait") ~> AcceptLoopExited
    /\ (ListenerClosed /\ server.accept = "call") ~> AcceptLoopExited

\* The accept loop is at the top of its loop, Accept not yet called, when
\* the server is closed, and calls Accept on the nil that Close left.
C21_Panic ==
    /\ ListenerClosed
    /\ server.Listener = 0
    /\ server.accept = "panic"
    /\ server.AcceptErr = Nil

IsPrefix(a, b) == Len(a) <= Len(b) /\ a = SubSeq(b, 1, Len(a))

\* The client that dialed the connection of Echo h.
ClientOf(h) == CHOOSE k \in 1..Len(clients) :
                  clients[k].Conduit.Link.conn = server.echo[h].conn

\* What C29 says of the clients and of the server's record: a client has
\* read back, in order, messages it sent and no others; the record under
\* the RemoteURI of an accepted conduit is under the LocalURI of the client
\* of that connection and holds, in order, messages of that client and no
\* others; and when the clients are done and the server closed, each client
\* has read back all its messages and the record holds them all.
Independent ==
    /\ \A k \in 1..Len(clients) :
          /\ IsPrefix(clients[k].In, clients[k].Out)
          /\ IsPrefix(SliceAt(server.Data, clients[k].URI), clients[k].Out)
          /\ main.pc = "Check" =>
                /\ clients[k].In = clients[k].Out
                /\ SliceAt(server.Data, clients[k].URI) = clients[k].Out
    /\ main.pc # "NewServer" =>
          /\ \A h \in 1..Len(server.echo) :
                URLString(server.echo[h].c.RemoteURI.uri) = clients[ClientOf(h)].URI
          /\ DOMAIN server.Data \subseteq {clients[k].URI : k \in 1..Len(clients)}
    /\ \A j, k \in 1..Len(clients) : j # k => clients[j].URI # clients[k].URI

\* C29 as stated: whatever the messages are.
C29_AnyMessages == Independent

\* No message is longer than the buffers Echo and Send read into.
MessagesFit ==
    \A out \in {arg.Cli1, arg.Cli2} : \A j \in 1..Len(out) :
        out[j] = <<>> \/ (Len(out[j]) = 1 /\ out[j][1].len <= 1024)

\* C29, amended: for messages of at most 1024 bytes each.
C29_MessagesThatFit == MessagesFit => Independent

\* Both clients have read one reply and sent their second message, and both
\* Echo goroutines have read it and not yet written it back.
C29_Witness ==
    /\ MessagesFit
    /\ Len(clients) = 2
    /\ Len(server.echo) = 2
    /\ \A k \in 1..2 : clients[k].pc = "read" /\ Len(clients[k].In) = 1
    /\ \A h \in 1..2 : server.echo[h].pc = "write"
    /\ \A k \in 1..2 : Len(SliceAt(server.Data, clients[k].URI)) = 2

============================================================================
